---- MODULE Spec2Model ----
(***************************************************************************)
(* A model of the scoutle toolkit: the manual match store                  *)
(* (manual_matches_storage.py), the champion analyzer                      *)
(* (champion_analyzer.py), the KDA computations, the Riot API client       *)
(* cache (api_client.py) and the hybrid combiner (hybrid_scraper.py).      *)
(* Each component has its own specification over its own variables; the    *)
(* variables of the other components stay at their idle values.            *)
(***************************************************************************)
EXTENDS Integers, Sequences, FiniteSets, TLC

VARIABLES
    \* ManualMatchStorage
    matches,    \* ManualMatchStorage.matches, the in-memory list
    file,       \* the content of ManualMatchStorage.storage_file on disk
    last,       \* the last call on the store: operation, arguments, result
    \* the KDA computations
    kdaIn,      \* kills, deaths and assists handed to the computations
    kdaOut,     \* the KDA each computation returned for kdaIn
    \* ChampionAnalyzer._calculate_performance_trend
    kdas,       \* the argument: a champion's per-game KDA values
    trend,      \* the returned trend
    \* ChampionAnalyzer.analyze_matches
    aPc,            \* where the call is: idle, in the loop over matches, done
    player_puuid,   \* the argument player_puuid
    champion_stats, \* the defaultdict filled by the loop
    aResult,        \* the returned dict of ChampionStats
    nMatches,       \* input matches consumed by the loop so far
    nWithPlayer,    \* how many of them have a participant with player_puuid
    \* RiotAPIClient
    cache,      \* RiotAPIClient.cache
    now,        \* time.time(), in ticks of 0.1 s
    nHttp,      \* HTTP requests sent so far
    req,        \* the last make_request call: its events and result
    \* HybridScraper._combine_data_sources
    opgg_data,  \* the argument opgg_data
    riot_data,  \* the argument riot_data
    combined,   \* the returned PlayerAccount
    \* HybridScraper.scrape_player_account
    riot_api_key,   \* the key the HybridScraper was made with
    has_riot_api,   \* HybridScraper.has_riot_api
    scrapeCall,     \* the last call: the scrapers it called and its result
    \* TournamentScraper.scrape_tournament_games
    page,               \* what the patterns find in the op.gg page
    tournament_stats,   \* the returned TournamentStats or None
    tournament_call,    \* whether scrape_tournament_games was called
    \* ScoutLEBot
    team_data,  \* ScoutLEBot.team_data
    team_file,  \* the content of team_data.json on disk, if the file exists
    botCall,    \* the last command: guild, arguments, answer
    \* ChampionAnalyzer.get_top_champions
    top_values,     \* champion_stats.values(), in the order of the dict
    top_limit,      \* the argument limit
    top_champions,   \* the returned list, once the call was made
    \* AccountGUI and ScoutleGUI
    threads,        \* the analysis threads that were started and have not returned
    current_account_data,   \* AccountGUI.current_account_data
    use_mock_data,  \* AccountGUI.use_mock_data, the checkbox
    api_client,     \* ScoutleGUI.api_client: None, or the keys of the client's cache
    after           \* the clear_results callbacks waiting in the Tk event queue

storeVars == <<matches, file, last>>
kdaVars == <<kdaIn, kdaOut>>
trendVars == <<kdas, trend>>
analyzerVars == <<aPc, player_puuid, champion_stats, aResult, nMatches, nWithPlayer>>
clientVars == <<cache, now, nHttp, req>>
hybridVars == <<opgg_data, riot_data, combined>>
scraperVars == <<riot_api_key, has_riot_api, scrapeCall>>
tournamentVars == <<page, tournament_stats, tournament_call>>
botVars == <<team_data, team_file, botCall>>
topVars == <<top_values, top_limit, top_champions>>
guiVars == <<threads, current_account_data, use_mock_data, api_client, after>>

vars == <<storeVars, kdaVars, trendVars, analyzerVars, clientVars, hybridVars, scraperVars, tournamentVars, botVars, topVars, guiVars>>

\* what the operations of one component leave alone
notStore == <<kdaVars, trendVars, analyzerVars, clientVars, hybridVars,
      scraperVars, tournamentVars, botVars, topVars, guiVars>>
notKda == <<storeVars, trendVars, analyzerVars, clientVars, hybridVars,
      scraperVars, tournamentVars, botVars, topVars, guiVars>>
notTrend == <<storeVars, kdaVars, analyzerVars, clientVars, hybridVars,
      scraperVars, tournamentVars, botVars, topVars, guiVars>>
notAnalyzer == <<storeVars, kdaVars, trendVars, clientVars, hybridVars,
      scraperVars, tournamentVars, botVars, topVars, guiVars>>
notClient == <<storeVars, kdaVars, trendVars, analyzerVars, hybridVars,
      scraperVars, tournamentVars, botVars, topVars, guiVars>>
notHybrid == <<storeVars, kdaVars, trendVars, analyzerVars, clientVars,
      scraperVars, tournamentVars, botVars, topVars, guiVars>>
notScraper == <<storeVars, kdaVars, trendVars, analyzerVars, clientVars,
      hybridVars, tournamentVars, botVars, topVars, guiVars>>
notTournament == <<storeVars, kdaVars, trendVars, analyzerVars, clientVars,
      hybridVars, scraperVars, botVars, topVars, guiVars>>
notBot == <<storeVars, kdaVars, trendVars, analyzerVars, clientVars,
      hybridVars, scraperVars, tournamentVars, topVars, guiVars>>
notTop == <<storeVars, kdaVars, trendVars, analyzerVars, clientVars,
      hybridVars, scraperVars, tournamentVars, botVars, guiVars>>
notGui == <<storeVars, kdaVars, trendVars, analyzerVars, clientVars,
      hybridVars, scraperVars, tournamentVars, botVars, topVars>>

----------------------------------------------------------------------------
(* Bounds and input domains of the store.                                  *)

MaxMatches == 3

MatchIds == {"MANUAL_001", "MANUAL_002", "MANUAL_003"}
Summoners == {"Faker#KR1", "Odd#kimmy"}
Champions == {"Ahri", "Zed"}
Results == {"WIN", "LOSS"}
\* the arguments of the queries: other spellings of the stored names
QuerySummoners == {"faker#kr1", "Odd#kimmy"}
QueryChampions == {"AHRI", "Zed"}

\* str.lower() on the names the model uses
lower(s) ==
    CASE s = "Faker#KR1" -> "faker#kr1"
      [] s = "faker#kr1" -> "faker#kr1"
      [] s = "Odd#kimmy" -> "odd#kimmy"
      [] s = "Ahri" -> "ahri"
      [] s = "AHRI" -> "ahri"
      [] s = "Zed" -> "zed"
      [] s = "KR" -> "kr"
      [] OTHER -> s

\* The dataclass ManualMatch. The fields the modelled operations compare or
\* count are kept; cs, game_duration, queue_type, date and notes are carried
\* through every operation untouched and are left out.
ManualMatch ==
    [match_id : MatchIds, summoner_name : Summoners,
     champion_name : Champions, result : Results]

\* the matches of one player on one champion
MatchesOfOne ==
    {m \in ManualMatch : m.summoner_name = "Faker#KR1" /\ m.champion_name = "Ahri"}

----------------------------------------------------------------------------
(* The JSON file.                                                          *)

NoFile == [state |-> "absent", data |-> <<>>]
\* open(..., 'w') succeeded and json.dump raised part-way: not valid JSON
TruncatedFile == [state |-> "truncated", data |-> <<>>]

\* dataclasses.asdict: the dict of a match's fields
asdict(m) == [k \in DOMAIN m |-> m[k]]

\* ManualMatch(**match): a match from the dict of its fields
FromDict(d) ==
    [match_id |-> d["match_id"], summoner_name |-> d["summoner_name"],
     champion_name |-> d["champion_name"], result |-> d["result"]]

\* Outcomes of the write in save_matches: it succeeds, open() raises (the
\* file is left as it was), or json.dump raises part-way.
IoOutcomes == {"ok", "open_fails", "dump_fails"}


\* save_matches: the file after saving the list ms over the file f. Every
\* exception is caught and only printed.
save_matches(ms, f, io) ==
    CASE io = "ok" ->
           [state |-> "json", data |-> [i \in 1..Len(ms) |-> asdict(ms[i])]]
      [] io = "open_fails" -> f
      [] OTHER -> TruncatedFile

\* load_matches: the list a new store reads from the file
load_matches(f) ==
    IF f.state = "json"
      THEN [i \in 1..Len(f.data) |-> FromDict(f.data[i])]
      ELSE <<>>

----------------------------------------------------------------------------
(* Queries.                                                                *)

RECURSIVE SelectSeq2(_, _, _)
\* the list comprehension [m for m in ms if ...] of get_champion_stats
SelectSeq2(ms, s, c) ==
    IF ms = <<>> THEN <<>>
    ELSE LET m == Head(ms)
             rest == SelectSeq2(Tail(ms), s, c)
         IN IF lower(m.summoner_name) = lower(s)
               /\ lower(m.champion_name) = lower(c)
              THEN <<m>> \o rest
              ELSE rest

RECURSIVE CountWins(_)
\* sum(1 for m in matches if m.result == "WIN")
CountWins(ms) ==
    IF ms = <<>> THEN 0
    ELSE (IF Head(ms).result = "WIN" THEN 1 ELSE 0) + CountWins(Tail(ms))

NoStats == [none |-> TRUE, champion_name |-> "", games_played |-> 0,
            wins |-> 0, losses |-> 0]

\* get_champion_stats comparing the names as they are spelled
champion_stats_exact_case(ms, s, c) ==
    LET sel == SelectSeq(ms, LAMBDA m : m.summoner_name = s /\ m.champion_name = c)
        games == Len(sel)
        wins == CountWins(sel)
    IN IF sel = <<>> THEN NoStats
       ELSE [none |-> FALSE, champion_name |-> c, games_played |-> games,
             wins |-> wins, losses |-> games - wins]

\* get_champion_stats: None, or the dict of the aggregate
champion_stats_of(ms, s, c) ==
    LET sel == SelectSeq2(ms, s, c)
        games == Len(sel)
        wins == CountWins(sel)
    IN IF sel = <<>> THEN NoStats
       ELSE [none |-> FALSE, champion_name |-> c, games_played |-> games,
             wins |-> wins, losses |-> games - wins]

----------------------------------------------------------------------------
(* The store's operations.                                                 *)

NoCall == [op |-> "init", match_id |-> "", ret |-> "None", saved |-> "no",
           summoner |-> "", champion |-> "", stats |-> NoStats]

Call(op, id, ret, saved) ==
    [NoCall EXCEPT !.op = op, !.match_id = id, !.ret = ret, !.saved = saved]

\* the outcome of save_matches as seen from outside: was the file written
Saved(io) == IF io = "open_fails" THEN "failed" ELSE IF io = "ok" THEN "ok" ELSE "partial"

HasId(ms, id) == \E i \in 1..Len(ms) : ms[i].match_id = id

RECURSIVE WithoutId(_, _)
\* [m for m in self.matches if m.match_id != match_id]
WithoutId(ms, id) ==
    IF ms = <<>> THEN <<>>
    ELSE IF Head(ms).match_id # id
           THEN <<Head(ms)>> \o WithoutId(Tail(ms), id)
           ELSE WithoutId(Tail(ms), id)

StoreIdle ==
    /\ file = NoFile
    /\ matches = <<>>
    /\ last = NoCall

StoreInit ==
    /\ file = NoFile
    /\ matches = load_matches(NoFile)
    /\ last = NoCall

\* add_match without the check of line 77
add_match_unchecked(m, io) ==
    /\ UNCHANGED notStore
    /\ Len(matches) < MaxMatches
    /\ matches' = Append(matches, m)
    /\ file' = save_matches(matches', file, io)
    /\ last' = Call("add_match", m.match_id, "True", Saved(io))

add_match(m, io) ==
    /\ UNCHANGED notStore
    /\ IF HasId(matches, m.match_id)
         THEN /\ last' = Call("add_match", m.match_id, "False", "no")
              /\ UNCHANGED <<matches, file>>
         ELSE /\ Len(matches) < MaxMatches
              /\ matches' = Append(matches, m)
              /\ file' = save_matches(matches', file, io)
              /\ last' = Call("add_match", m.match_id, "True", Saved(io))

\* remove_match that saves whether or not a match was removed
remove_match_always_saves(id, io) ==
    LET kept == WithoutId(matches, id)
    IN /\ UNCHANGED notStore
       /\ matches' = kept
       /\ file' = save_matches(kept, file, io)
       /\ last' = Call("remove_match", id,
                       IF Len(kept) < Len(matches) THEN "True" ELSE "False",
                       Saved(io))

remove_match(id, io) ==
    LET kept == WithoutId(matches, id)
    IN /\ UNCHANGED notStore
       /\ IF Len(kept) < Len(matches)
            THEN /\ matches' = kept
                 /\ file' = save_matches(kept, file, io)
                 /\ last' = Call("remove_match", id, "True", Saved(io))
            ELSE /\ matches' = kept
                 /\ file' = file
                 /\ last' = Call("remove_match", id, "False", "no")

clear_all_matches(io) ==
    /\ UNCHANGED notStore
    /\ matches' = <<>>
    /\ file' = save_matches(<<>>, file, io)
    /\ last' = Call("clear_all_matches", "", "None", Saved(io))

get_champion_stats(s, c) ==
    /\ last' = [NoCall EXCEPT !.op = "get_champion_stats", !.summoner = s,
                              !.champion = c,
                              !.stats = champion_stats_of(matches, s, c)]
    /\ UNCHANGED <<matches, file>>
    /\ UNCHANGED notStore

\* ManualMatchStorage(storage_file): a new store on the same file
NewStore ==
    /\ matches' = load_matches(file)
    /\ last' = NoCall
    /\ UNCHANGED file
    /\ UNCHANGED notStore

\* the store on a disk that may fail, holding the matches of one player
StoreNext ==
    \/ \E m \in MatchesOfOne, io \in IoOutcomes : add_match(m, io)
    \/ \E id \in MatchIds, io \in IoOutcomes : remove_match(id, io)
    \/ \E io \in IoOutcomes : clear_all_matches(io)
    \/ \E s \in QuerySummoners, c \in QueryChampions : get_champion_stats(s, c)
    \/ NewStore

\* the store on a disk that works, holding matches of several players and
\* champions
StatsNext ==
    \/ \E m \in ManualMatch : add_match(m, "ok")
    \/ \E id \in MatchIds : remove_match(id, "ok")
    \/ clear_all_matches("ok")
    \/ \E s \in QuerySummoners, c \in QueryChampions : get_champion_stats(s, c)
    \/ NewStore

----------------------------------------------------------------------------
(* Claims about the manual match store.                                    *)

UniqueIds ==
    \A i, j \in 1..Len(matches) :
        i # j => matches[i].match_id # matches[j].match_id

AddStep ==
    last'.op = "add_match" =>
        IF \E i \in 1..Len(matches) : matches[i].match_id = last'.match_id
          THEN last'.ret = "False" /\ matches' = matches
          ELSE /\ last'.ret = "True"
               /\ Len(matches') = Len(matches) + 1
               /\ SubSeq(matches', 1, Len(matches)) = matches
               /\ matches'[Len(matches')].match_id = last'.match_id

\* C1: starting from an empty store, no two stored matches ever have the
\* same match_id; add_match with a stored match_id returns False and leaves
\* the list unchanged, otherwise it appends the match and returns True.
C1_UniqueMatchIds == []UniqueIds /\ [][AddStep]_vars

\* add_match has refused a duplicate while other matches are stored
C1_Witness ==
    /\ last.op = "add_match" /\ last.ret = "False"
    /\ Len(matches) >= 2

\* C2: whenever add_match returns True, a store created afterwards on the
\* same file loads a list that contains the match and equals the in-memory
\* list, in the same order.
C2_AddedMatchIsOnFile ==
    (last.op = "add_match" /\ last.ret = "True") =>
        /\ load_matches(file) = matches
        /\ \E i \in 1..Len(load_matches(file)) :
              load_matches(file)[i].match_id = last.match_id

RemoveStep ==
    last'.op = "remove_match" =>
        LET id == last'.match_id
            stored == \E i \in 1..Len(matches) : matches[i].match_id = id
        IN /\ (last'.ret = "True") = stored
           /\ last'.ret \in {"True", "False"}
           /\ \A i \in 1..Len(matches') : matches'[i].match_id # id
           /\ matches' = SelectSeq(matches, LAMBDA m : m.match_id # id)
           /\ ~stored => /\ matches' = matches
                          /\ file' = file
                          /\ last'.saved = "no"

\* C3: remove_match(match_id) returns True exactly when a match with that
\* id was stored; afterwards no stored match has that id and every other
\* match is kept in its original order. When no match has that id it
\* returns False, the list is unchanged and the file is not rewritten.
C3_RemoveMatch == [][RemoveStep]_vars

\* a match has been removed from between or beside two others, which stay
C3_Witness ==
    /\ last.op = "remove_match" /\ last.ret = "True"
    /\ Len(matches) = 2

\* the stored matches get_champion_stats(s, c) is about
Selected(s, c) ==
    {i \in 1..Len(matches) :
        /\ lower(matches[i].summoner_name) = lower(s)
        /\ lower(matches[i].champion_name) = lower(c)}

\* C4: get_champion_stats(summoner, champion) aggregates exactly the stored
\* matches whose summoner_name and champion_name equal the arguments
\* ignoring case: games_played is their count, wins the number with result
\* "WIN", losses = games_played - wins, and it returns None when there is
\* no such match.
C4_ChampionStats ==
    last.op = "get_champion_stats" =>
        LET sel == Selected(last.summoner, last.champion)
            st == last.stats
        IN IF sel = {} THEN st.none
           ELSE /\ ~st.none
                /\ st.games_played = Cardinality(sel)
                /\ st.wins = Cardinality({i \in sel : matches[i].result = "WIN"})
                /\ st.losses = st.games_played - st.wins
                /\ st.games_played = st.wins + st.losses

\* stats of a champion queried in another spelling, with a win and a loss,
\* while a match of another champion is stored
C4_Witness ==
    /\ last.op = "get_champion_stats"
    /\ last.champion = "AHRI" /\ last.summoner = "faker#kr1"
    /\ last.stats.wins = 1 /\ last.stats.losses = 1
    /\ Len(matches) = 3

----------------------------------------------------------------------------
(* Numbers. A Python number is modelled as the exact rational n/d, d > 0;  *)
(* the values the model draws (integers and halves) and their sums and     *)
(* quotients below are ones on which the float arithmetic of the code      *)
(* decides every comparison the same way.                                  *)

R(n, d) == [n |-> n, d |-> d]
RAdd(a, b) == R(a.n * b.d + b.n * a.d, a.d * b.d)
RMul(a, b) == R(a.n * b.n, a.d * b.d)
\* a / b for b > 0
RDiv(a, b) == R(a.n * b.d, a.d * b.n)
RLt(a, b) == a.n * b.d < b.n * a.d
REq(a, b) == a.n * b.d = b.n * a.d
\* max(a, b)
RMax(a, b) == IF RLt(a, b) THEN b ELSE a

RECURSIVE RSum(_)
\* sum(xs)
RSum(xs) == IF xs = <<>> THEN R(0, 1) ELSE RAdd(Head(xs), RSum(Tail(xs)))

----------------------------------------------------------------------------
(* The places that compute a KDA.                                          *)

\* ManualMatch.kda
ManualMatch_kda(kills, deaths, assists) ==
    IF REq(deaths, R(0, 1))
      THEN RAdd(kills, assists)
      ELSE RDiv(RAdd(kills, assists), deaths)

\* MatchPerformance.kda
MatchPerformance_kda(kills, deaths, assists) ==
    IF REq(deaths, R(0, 1))
      THEN RAdd(kills, assists)
      ELSE RDiv(RAdd(kills, assists), deaths)

\* the per-game KDA of ChampionAnalyzer.analyze_matches
analyze_matches_kda(kills, deaths, assists) ==
    IF RLt(R(0, 1), deaths)
      THEN RDiv(RAdd(kills, assists), deaths)
      ELSE RAdd(kills, assists)

\* avg_kda of ManualMatchStorage.get_champion_stats, from the totals
get_champion_stats_kda(total_kills, total_deaths, total_assists) ==
    IF RLt(R(0, 1), total_deaths)
      THEN RDiv(RAdd(total_kills, total_assists), total_deaths)
      ELSE RAdd(total_kills, total_assists)

\* kda of ScoutLEBot._combine_stats, from a champion's totals
combine_stats_kda(kills, deaths, assists) ==
    RDiv(RAdd(kills, assists), RMax(deaths, R(1, 1)))

KdaSites == {"ManualMatch.kda", "MatchPerformance.kda", "analyze_matches",
             "get_champion_stats", "_combine_stats"}

\* kills, deaths and assists: !addgame takes them as floats
KillValues == {R(0, 1), R(3, 1), R(5, 2)}
DeathValues == {R(0, 1), R(1, 2), R(1, 1), R(2, 1), R(3, 1)}
AssistValues == {R(0, 1), R(1, 1)}

NotComputed == [set |-> FALSE, value |-> R(0, 1)]

KdaIdle ==
    /\ kdaIn = [kills |-> R(0, 1), deaths |-> R(0, 1), assists |-> R(0, 1)]
    /\ kdaOut = [site \in KdaSites |-> NotComputed]

KdaInit ==
    /\ kdaIn \in [kills : KillValues, deaths : DeathValues, assists : AssistValues]
    /\ kdaOut = [site \in KdaSites |-> NotComputed]

Computes(site, value) ==
    /\ ~kdaOut[site].set
    /\ kdaOut' = [kdaOut EXCEPT ![site] = [set |-> TRUE, value |-> value]]
    /\ UNCHANGED kdaIn
    /\ UNCHANGED notKda

ManualMatchKda ==
    Computes("ManualMatch.kda",
             ManualMatch_kda(kdaIn.kills, kdaIn.deaths, kdaIn.assists))

MatchPerformanceKda ==
    Computes("MatchPerformance.kda",
             MatchPerformance_kda(kdaIn.kills, kdaIn.deaths, kdaIn.assists))

AnalyzeMatchesKda ==
    Computes("analyze_matches",
             analyze_matches_kda(kdaIn.kills, kdaIn.deaths, kdaIn.assists))

GetChampionStatsKda ==
    Computes("get_champion_stats",
             get_champion_stats_kda(kdaIn.kills, kdaIn.deaths, kdaIn.assists))

CombineStatsKda ==
    Computes("_combine_stats",
             combine_stats_kda(kdaIn.kills, kdaIn.deaths, kdaIn.assists))

KdaNext ==
    \/ ManualMatchKda
    \/ MatchPerformanceKda
    \/ AnalyzeMatchesKda
    \/ GetChampionStatsKda
    \/ CombineStatsKda

\* C7: every place that computes a KDA returns (kills + assists) / deaths
\* when deaths > 0 and kills + assists when deaths = 0, so all of them give
\* the same value for the same kills, deaths and assists.
C7_SameKdaEverywhere ==
    \A site \in KdaSites :
        kdaOut[site].set =>
            LET v == kdaOut[site].value
                ka == kdaIn.kills.n * kdaIn.assists.d
                        + kdaIn.assists.n * kdaIn.kills.d
                kad == kdaIn.kills.d * kdaIn.assists.d
            IN IF kdaIn.deaths.n > 0
                 \* v = (ka / kad) / (deaths.n / deaths.d)
                 THEN v.n * kad * kdaIn.deaths.n = ka * kdaIn.deaths.d * v.d
                 ELSE v.n * kad = ka * v.d

----------------------------------------------------------------------------
(* ChampionAnalyzer._calculate_performance_trend                           *)

MaxKdas == 5

KdaValues == {R(0, 1), R(9, 2), R(5, 1), R(11, 2), R(6, 1)}

\* statistics.mean(xs) for a list that is not empty
mean(xs) == RDiv(RSum(xs), R(Len(xs), 1))

\* the split after (len + 1) // 2 games
calculate_performance_trend_split_up(ks) ==
    IF Len(ks) < 4 THEN "stable"
    ELSE LET mid_point == (Len(ks) + 1) \div 2
             first_avg == mean(SubSeq(ks, 1, mid_point))
             second_avg == mean(SubSeq(ks, mid_point + 1, Len(ks)))
         IN IF RLt(RMul(first_avg, R(11, 10)), second_avg) THEN "improving"
            ELSE IF RLt(second_avg, RMul(first_avg, R(9, 10))) THEN "declining"
            ELSE "stable"

calculate_performance_trend(ks) ==
    IF Len(ks) < 4 THEN "stable"
    ELSE LET mid_point == Len(ks) \div 2
             first_half == SubSeq(ks, 1, mid_point)
             second_half == SubSeq(ks, mid_point + 1, Len(ks))
             first_avg == mean(first_half)
             second_avg == mean(second_half)
         IN IF RLt(RMul(first_avg, R(11, 10)), second_avg) THEN "improving"
            ELSE IF RLt(second_avg, RMul(first_avg, R(9, 10))) THEN "declining"
            ELSE "stable"

TrendIdle ==
    /\ kdas = <<>>
    /\ trend = "unset"

TrendInit ==
    /\ kdas \in UNION {[1..n -> KdaValues] : n \in 0..MaxKdas}
    /\ trend = "unset"

CalculatePerformanceTrend ==
    /\ trend = "unset"
    /\ trend' = calculate_performance_trend(kdas)
    /\ UNCHANGED kdas
    /\ UNCHANGED notTrend

TrendNext == CalculatePerformanceTrend

\* twice a KDA value of the model, an integer
Twice(r) == (2 * r.n) \div r.d

RECURSIVE TwiceSum(_, _, _)
\* twice the sum of ks[from..to]
TwiceSum(ks, from, to) ==
    IF from > to THEN 0 ELSE Twice(ks[from]) + TwiceSum(ks, from + 1, to)

\* C6: with fewer than 4 games the trend is "stable"; otherwise the first
\* floor(n/2) games are compared with the remaining games: "improving" when
\* the second half's mean KDA exceeds 1.1 times the first half's mean,
\* "declining" when it is below 0.9 times it, "stable" otherwise.
C6_TwoHalfTrend ==
    trend # "unset" =>
        LET n == Len(kdas)
            n1 == n \div 2
            n2 == n - n1
            s1 == TwiceSum(kdas, 1, n1)
            s2 == TwiceSum(kdas, n1 + 1, n)
        IN IF n < 4 THEN trend = "stable"
           \* s2/n2 > 1.1 * s1/n1, and s2/n2 < 0.9 * s1/n1
           ELSE IF 10 * s2 * n1 > 11 * s1 * n2 THEN trend = "improving"
           ELSE IF 10 * s2 * n1 < 9 * s1 * n2 THEN trend = "declining"
           ELSE trend = "stable"

\* five games, split 2 and 3, whose second half is exactly 1.1 times the
\* first: not an improvement
C6_Witness ==
    /\ trend = "stable"
    /\ Len(kdas) = 5
    /\ 10 * TwiceSum(kdas, 3, 5) * 2 = 11 * TwiceSum(kdas, 1, 2) * 3
    /\ TwiceSum(kdas, 1, 2) > 0

----------------------------------------------------------------------------
(* ChampionAnalyzer.analyze_matches                                        *)

MaxGames == 3

Puuids == {"P1", "P2"}
\* "-": the participant record has no championName
ChampionNames == {"Ahri", "Zed", "-"}
\* kills, deaths, assists of a participant
ScoreLines == {<<3, 0, 1>>, <<1, 2, 0>>}

Participants ==
    {[puuid |-> p, championName |-> c, win |-> w,
      kills |-> k[1], deaths |-> k[2], assists |-> k[3]] :
        p \in Puuids, c \in ChampionNames, w \in BOOLEAN, k \in ScoreLines}

\* a match-detail payload: match['info']['participants']; a payload
\* without 'info' or 'participants' reads as the empty list
MatchPayloads ==
    [participants : UNION {[1..n -> Participants] : n \in 0..2}]

EmptyDict == [c \in {} |-> 0]

RECURSIVE FirstWithPuuid(_, _)
FirstWithPuuid(ps, puuid) ==
    IF ps = <<>> THEN <<>>
    ELSE IF Head(ps).puuid = puuid THEN <<Head(ps)>>
    ELSE FirstWithPuuid(Tail(ps), puuid)

\* _extract_player_data looking at the first participant only
extract_player_data_first_only(match, puuid) ==
    IF match.participants # <<>> /\ match.participants[1].puuid = puuid
      THEN <<match.participants[1]>>
      ELSE <<>>

\* _extract_player_data: <<participant>>, or <<>> for the empty dict
extract_player_data(match, puuid) ==
    FirstWithPuuid(match.participants, puuid)

\* the default entry of the defaultdict; 'games' is kept as its length
NewChampion == [games |-> 0, wins |-> 0, losses |-> 0, kdas |-> <<>>]

\* one pass of the loop of analyze_matches over a match
process_match(stats, match, puuid) ==
    LET player_data == extract_player_data(match, puuid)
    IN IF player_data = <<>> THEN stats
       ELSE LET p == player_data[1]
                champion == IF p.championName = "-" THEN "Unknown"
                                                    ELSE p.championName
                old == IF champion \in DOMAIN stats THEN stats[champion]
                                                     ELSE NewChampion
                kda == analyze_matches_kda(R(p.kills, 1), R(p.deaths, 1),
                                           R(p.assists, 1))
                new == [games |-> old.games + 1,
                        wins |-> IF p.win THEN old.wins + 1 ELSE old.wins,
                        losses |-> IF p.win THEN old.losses ELSE old.losses + 1,
                        kdas |-> Append(old.kdas, kda)]
            IN [c \in DOMAIN stats \cup {champion} |->
                    IF c = champion THEN new ELSE stats[c]]

\* the conversion to ChampionStats objects
to_champion_stats(stats) ==
    [c \in {k \in DOMAIN stats : stats[k].games > 0} |->
        [champion_name |-> c,
         games_played |-> stats[c].games,
         wins |-> stats[c].wins,
         losses |-> stats[c].losses,
         performance_trend |-> calculate_performance_trend(stats[c].kdas)]]

AnalyzerIdle ==
    /\ aPc = "idle"
    /\ player_puuid = ""
    /\ champion_stats = EmptyDict
    /\ aResult = EmptyDict
    /\ nMatches = 0
    /\ nWithPlayer = 0

AnalyzerInit == AnalyzerIdle

\* analyze_matches is called
analyze_matches_call(puuid) ==
    /\ aPc \in {"idle", "done"}
    /\ aPc' = "loop"
    /\ player_puuid' = puuid
    /\ champion_stats' = EmptyDict
    /\ aResult' = EmptyDict
    /\ nMatches' = 0
    /\ nWithPlayer' = 0
    /\ UNCHANGED notAnalyzer

\* the loop takes the next match of the argument
analyze_matches_loop(match) ==
    /\ aPc = "loop"
    /\ nMatches < MaxGames
    /\ champion_stats' = process_match(champion_stats, match, player_puuid)
    /\ nMatches' = nMatches + 1
    /\ nWithPlayer' =
         IF \E i \in 1..Len(match.participants) :
                match.participants[i].puuid = player_puuid
           THEN nWithPlayer + 1 ELSE nWithPlayer
    /\ UNCHANGED <<aPc, player_puuid, aResult>>
    /\ UNCHANGED notAnalyzer

\* the list is exhausted: the result is built and returned
analyze_matches_return ==
    /\ aPc = "loop"
    /\ aPc' = "done"
    /\ aResult' = to_champion_stats(champion_stats)
    /\ UNCHANGED <<player_puuid, champion_stats, nMatches, nWithPlayer>>
    /\ UNCHANGED notAnalyzer

AnalyzerNext ==
    \/ \E puuid \in Puuids : analyze_matches_call(puuid)
    \/ \E match \in MatchPayloads : analyze_matches_loop(match)
    \/ analyze_matches_return

RECURSIVE SumGamesPlayed(_, _)
\* the games_played of the champions cs of a result, added up
SumGamesPlayed(result, cs) ==
    IF cs = {} THEN 0
    ELSE LET c == CHOOSE x \in cs : TRUE
         IN result[c].games_played + SumGamesPlayed(result, cs \ {c})

GamesOf(stats, c) == IF c \in DOMAIN stats THEN stats[c].games ELSE 0

ReturnedStats ==
    aPc = "done" =>
        /\ SumGamesPlayed(aResult, DOMAIN aResult) = nWithPlayer
        /\ \A c \in DOMAIN aResult :
              /\ aResult[c].games_played >= 1
              /\ aResult[c].games_played = aResult[c].wins + aResult[c].losses

CountedOnce ==
    nMatches' = nMatches + 1 =>
        IF nWithPlayer' = nWithPlayer + 1
          THEN \E c \in DOMAIN champion_stats' :
                 /\ GamesOf(champion_stats', c) = GamesOf(champion_stats, c) + 1
                 /\ \A o \in DOMAIN champion_stats' \ {c} :
                       GamesOf(champion_stats', o) = GamesOf(champion_stats, o)
          ELSE /\ nWithPlayer' = nWithPlayer
               /\ DOMAIN champion_stats' = DOMAIN champion_stats
               /\ \A o \in DOMAIN champion_stats' :
                     GamesOf(champion_stats', o) = GamesOf(champion_stats, o)

\* C5: every input match in which a participant has the given puuid is
\* counted for exactly one champion and matches without that puuid are
\* ignored, so the games_played of all returned champions sum to the number
\* of input matches containing the player; every returned champion has
\* games_played >= 1 and games_played = wins + losses.
C5_GroupedByChampion == []ReturnedStats /\ [][CountedOnce]_vars

\* three matches, one without the player, the others on two champions
C5_Witness ==
    /\ aPc = "done"
    /\ nMatches = 3 /\ nWithPlayer = 2
    /\ Cardinality(DOMAIN aResult) = 2

----------------------------------------------------------------------------
(* RiotAPIClient.make_request. Time is counted in ticks of 0.1 s, the      *)
(* length of the sleep before a request.                                   *)

CACHE_DURATION == 300
TicksPerSecond == 10
\* RATE_LIMIT_DELAY = 0.1 s, in ticks
RATE_LIMIT_DELAY == 1

MaxTime == 6010
MaxHttp == 3

\* the urls of get_summoner_data and get_match_history, without the host
Urls == {"/lol/summoner/v4/summoners/by-puuid/P1",
         "/lol/match/v5/matches/by-puuid/P1/ids?count=20"}

\* params is None or a dict, the sequence of its items in insertion order
None == [is_none |-> TRUE, items |-> << >>]
Dict(items) == [is_none |-> FALSE, items |-> items]
ParamValues == {None, Dict(<< <<"count", 20>>, <<"start", 0>> >>)}

\* str(params): 'None' or "{'count': 20, 'start': 0}"
RECURSIVE repr_items(_)
repr_items(items) ==
    IF items = << >> THEN ""
    ELSE LET item == Head(items)
             one == "'" \o item[1] \o "': " \o ToString(item[2])
         IN IF Len(items) = 1 THEN one
            ELSE one \o ", " \o repr_items(Tail(items))

str(params) ==
    IF params.is_none THEN "None" ELSE "{" \o repr_items(params.items) \o "}"

\* cache_key = f"{url}_{params}"
cache_key_of(url, params) == url \o "_" \o str(params)

\* what requests.get and raise_for_status come to: a JSON body or a
\* RequestException
Responses == {"body1", "body2", "RequestException"}
\* the time a request takes beyond the sleep, in ticks: the timestamp of
\* an entry is taken after the response arrived
Latencies == {1}
\* the time that passes between two calls, in ticks
Pauses == {CACHE_DURATION * TicksPerSecond - 1, CACHE_DURATION * TicksPerSecond}

NoRequest == [op |-> "none", url |-> "", params |-> None, age |-> -1,
              events |-> << >>, response |-> "", ret |-> ""]

\* how old the entry under cache_key is, -1 when there is none
age_of(cache_key) ==
    IF cache_key \in DOMAIN cache THEN now - cache[cache_key].timestamp ELSE -1

\* self.cache = {}
ClientIdle ==
    /\ cache = << >>
    /\ now = 0
    /\ nHttp = 0
    /\ req = NoRequest

ClientInit == ClientIdle

\* the entry is there and time.time() - timestamp < CACHE_DURATION
cache_hit(cache_key) ==
    /\ cache_key \in DOMAIN cache
    /\ now - cache[cache_key].timestamp < CACHE_DURATION * TicksPerSecond

\* return cached_data
return_cached(url, params) ==
    /\ req' = [op |-> "make_request", url |-> url, params |-> params,
               age |-> age_of(cache_key_of(url, params)),
               events |-> << >>, response |-> "",
               ret |-> cache[cache_key_of(url, params)].data]
    /\ UNCHANGED <<cache, now, nHttp>>

\* time.sleep, requests.get, raise_for_status, response.json and the store
\* in the cache, or the except branch. An entry is (data, timestamp); url
\* and params record the request it was stored for.
send_request(url, params, response, latency) ==
    LET cache_key == cache_key_of(url, params) IN
    /\ nHttp < MaxHttp
    /\ now + RATE_LIMIT_DELAY + latency <= MaxTime
    /\ now' = now + RATE_LIMIT_DELAY + latency
    /\ nHttp' = nHttp + 1
    /\ IF response = "RequestException"
         THEN /\ UNCHANGED cache
              /\ req' = [op |-> "make_request", url |-> url, params |-> params,
                         age |-> age_of(cache_key_of(url, params)),
                         events |-> <<"sleep", "get">>,
                         response |-> response, ret |-> "None"]
         ELSE /\ cache' = [k \in DOMAIN cache \cup {cache_key} |->
                            IF k = cache_key
                              THEN [data |-> response, timestamp |-> now',
                                    url |-> url, params |-> params]
                              ELSE cache[k]]
              /\ req' = [op |-> "make_request", url |-> url, params |-> params,
                         age |-> age_of(cache_key_of(url, params)),
                         events |-> <<"sleep", "get">>,
                         response |-> response, ret |-> response]

\* make_request returning an entry that is exactly CACHE_DURATION old
make_request_stale(url, params, response, latency) ==
    LET cache_key == cache_key_of(url, params) IN
    /\ UNCHANGED notClient
    /\ IF /\ cache_key \in DOMAIN cache
          /\ now - cache[cache_key].timestamp <= CACHE_DURATION * TicksPerSecond
         THEN return_cached(url, params)
         ELSE send_request(url, params, response, latency)

\* make_request trying a failed request a second time
make_request_retry(url, params, response, latency) ==
    /\ UNCHANGED notClient
    /\ IF cache_hit(cache_key_of(url, params))
         THEN return_cached(url, params)
         ELSE IF response = "RequestException"
         THEN /\ nHttp + 1 < MaxHttp
              /\ now + 2 * (RATE_LIMIT_DELAY + latency) <= MaxTime
              /\ now' = now + 2 * (RATE_LIMIT_DELAY + latency)
              /\ nHttp' = nHttp + 2
              /\ UNCHANGED cache
              /\ req' = [op |-> "make_request", url |-> url, params |-> params,
                         age |-> age_of(cache_key_of(url, params)),
                         events |-> <<"sleep", "get", "sleep", "get">>,
                         response |-> response, ret |-> "None"]
         ELSE send_request(url, params, response, latency)

\* make_request(url, params): response and latency are what the network
\* does if a request is sent
make_request(url, params, response, latency) ==
    /\ UNCHANGED notClient
    /\ IF cache_hit(cache_key_of(url, params))
         THEN return_cached(url, params)
         ELSE send_request(url, params, response, latency)

\* time passes between two calls
PassTime(d) ==
    /\ now + d <= MaxTime
    /\ now' = now + d
    /\ req' = NoRequest
    /\ UNCHANGED <<cache, nHttp>>
    /\ UNCHANGED notClient

ClientNext ==
    \/ \E url \in Urls, params \in ParamValues, response \in Responses,
          latency \in Latencies : make_request(url, params, response, latency)
    \/ \E d \in Pauses : PassTime(d)

Gets(events) == {i \in 1..Len(events) : events[i] = "get"}

\* the entries stored for the request of this step
EntriesFor(url, params) ==
    {k \in DOMAIN cache : cache[k].url = url /\ cache[k].params = params}

ServedFromCache ==
    req'.op = "make_request" =>
        LET mine == EntriesFor(req'.url, req'.params)
            fresh == {k \in mine : now - cache[k].timestamp
                                      < CACHE_DURATION * TicksPerSecond}
        IN /\ Cardinality(mine) <= 1
           /\ IF fresh # {}
                THEN /\ \A k \in fresh : req'.ret = cache[k].data
                     /\ req'.events = << >>
                     /\ UNCHANGED <<cache, now, nHttp>>
                ELSE /\ Gets(req'.events) # {}
                     /\ nHttp' > nHttp
                     /\ IF req'.response = "RequestException"
                          THEN req'.ret = "None" /\ cache' = cache
                          ELSE /\ req'.ret = req'.response
                               /\ \E k \in DOMAIN cache' :
                                    /\ cache'[k] = [data |-> req'.response,
                                                    timestamp |-> now',
                                                    url |-> req'.url,
                                                    params |-> req'.params]
                                    /\ mine \subseteq {k}
                                    /\ DOMAIN cache' = DOMAIN cache \cup {k}
                                    /\ \A o \in DOMAIN cache :
                                         o # k => cache'[o] = cache[o]

\* C8: an entry for the same url and params stored less than CACHE_DURATION
\* (300 s) ago is returned without sleeping and without an HTTP request; an
\* entry that is CACHE_DURATION old or older is never returned: a request is
\* sent and on success replaces the entry with a new timestamp.
C8_CacheServesFreshEntries == [][ServedFromCache]_vars

\* a request was sent for an entry exactly CACHE_DURATION old and replaced
\* it by another body, while the entry of another request stayed
C8_Witness ==
    /\ req.op = "make_request" /\ req.events # << >>
    /\ req.ret = "body2"
    /\ req.age = CACHE_DURATION * TicksPerSecond
    /\ \E k \in EntriesFor(req.url, req.params) : cache[k].timestamp = now
    /\ \E o \in DOMAIN cache :
          /\ o \notin EntriesFor(req.url, req.params)
          /\ cache[o].url = req.url
          /\ cache[o].timestamp < now

OneRequestPerCall ==
    req'.op = "make_request" =>
        /\ \A i \in Gets(req'.events) : i > 1 /\ req'.events[i - 1] = "sleep"
        /\ Cardinality(Gets(req'.events)) <= 1
        /\ nHttp' - nHttp = Cardinality(Gets(req'.events))
        /\ Gets(req'.events) # {} => now' - now >= RATE_LIMIT_DELAY
        /\ req'.ret = "None" => Cardinality(Gets(req'.events)) = 1

\* C9: every HTTP request sent by make_request is preceded by one sleep of
\* rate_limit_delay, and one call sends at most one HTTP request: a failed
\* request is not retried.
C9_OneSleepOneRequest == [][OneRequestPerCall]_vars

\* a request failed and the call returned None after one attempt
C9_Witness ==
    /\ req.op = "make_request"
    /\ req.ret = "None"
    /\ req.events = <<"sleep", "get">>
    /\ nHttp >= 2

----------------------------------------------------------------------------
(* HybridScraper._combine_data_sources                                     *)

MaxChampions == 2

HybridChampions == {"Ahri", "Zed", "Lux"}
HybridGames == {1, 2}

\* ChampionPerformance (op.gg) and RiotChampionPerformance, which also has
\* a champion_id; the other fields are copied along with games_played
OpggPerformances == [champion_name : HybridChampions, games_played : HybridGames]
RiotPerformances == [champion_name : HybridChampions, champion_id : {0},
                     games_played : HybridGames]

\* the account fields of PlayerAccount and RiotPlayerAccount
NoAccount == [summoner_name |-> "", region |-> "", level |-> 0,
              soloq_rank |-> "", flex_rank |-> "", soloq_lp |-> 0,
              flex_lp |-> 0, champion_performances |-> <<>>]

NotCombined == [made |-> FALSE] @@ NoAccount

HybridIdle ==
    /\ opgg_data = NoAccount
    /\ riot_data = NoAccount
    /\ combined = NotCombined

\* what the two scrapers report of one player
OpggLevels == {30}
RiotLevels == {29, 30, 31}

HybridInit ==
    /\ opgg_data \in
         [summoner_name : {"Odd#kimmy"}, region : {"euw"}, level : OpggLevels,
          soloq_rank : {"Gold 4"}, flex_rank : {"Unranked"},
          soloq_lp : {50}, flex_lp : {0},
          champion_performances :
              UNION {[1..n -> OpggPerformances] : n \in 0..MaxChampions}]
    /\ riot_data \in
         [summoner_name : {"Odd"}, region : {"euw"}, level : RiotLevels,
          soloq_rank : {"GOLD IV"}, flex_rank : {"SILVER I"},
          soloq_lp : {55}, flex_lp : {10},
          champion_performances :
              UNION {[1..n -> RiotPerformances] : n \in 0..MaxChampions}]
    /\ combined = NotCombined

RECURSIVE by_name(_, _)
\* {champ.champion_name: champ for champ in perfs}, as the list of its
\* values in the order of the dict: a name keeps the place of its first
\* occurrence and the value of its last
by_name(acc, perfs) ==
    IF perfs = <<>> THEN acc
    ELSE LET c == Head(perfs)
             at == {i \in 1..Len(acc) : acc[i].champion_name = c.champion_name}
         IN by_name(IF at = {} THEN Append(acc, c)
                    ELSE [acc EXCEPT ![CHOOSE i \in at : TRUE] = c],
                    Tail(perfs))

\* the ChampionPerformance built from a RiotChampionPerformance
to_opgg_format(champ_data) ==
    [champion_name |-> champ_data.champion_name,
     games_played |-> champ_data.games_played]

RECURSIVE insert_by_games(_, _)
insert_by_games(sorted, x) ==
    IF sorted = <<>> THEN <<x>>
    ELSE IF Head(sorted).games_played >= x.games_played
           THEN <<Head(sorted)>> \o insert_by_games(Tail(sorted), x)
           ELSE <<x>> \o sorted

RECURSIVE sort_by_games(_)
\* list.sort(key=games_played, reverse=True): stable, most played first
sort_by_games(xs) ==
    IF xs = <<>> THEN <<>>
    ELSE insert_by_games(sort_by_games(SubSeq(xs, 1, Len(xs) - 1)), xs[Len(xs)])

RECURSIVE missing_in_opgg(_, _)
\* the Riot champions whose name is not a key of opgg_champions
missing_in_opgg(riot_champions, opgg_champions) ==
    IF riot_champions = <<>> THEN <<>>
    ELSE LET c == Head(riot_champions)
             rest == missing_in_opgg(Tail(riot_champions), opgg_champions)
         IN IF \E i \in 1..Len(opgg_champions) :
                  opgg_champions[i].champion_name = c.champion_name
              THEN rest
              ELSE <<to_opgg_format(c)>> \o rest

\* _combine_data_sources adding every Riot champion
combine_data_sources_all_riot(opgg, riot) ==
    LET opgg_champions == by_name(<<>>, opgg.champion_performances)
        riot_champions == by_name(<<>>, riot.champion_performances)
        combined_champions ==
            opgg_champions \o missing_in_opgg(riot_champions, <<>>)
        base_data ==
            IF riot.level > opgg.level
               \/ Len(riot.champion_performances) > Len(opgg.champion_performances)
              THEN riot ELSE opgg
    IN [made |-> TRUE,
        summoner_name |-> base_data.summoner_name,
        region |-> base_data.region,
        level |-> base_data.level,
        soloq_rank |-> base_data.soloq_rank,
        flex_rank |-> base_data.flex_rank,
        soloq_lp |-> base_data.soloq_lp,
        flex_lp |-> base_data.flex_lp,
        champion_performances |-> sort_by_games(combined_champions)]

\* _combine_data_sources taking each account field from the record that
\* has the higher value of it
combine_data_sources_field_by_field(opgg, riot) ==
    LET opgg_champions == by_name(<<>>, opgg.champion_performances)
        riot_champions == by_name(<<>>, riot.champion_performances)
        combined_champions ==
            opgg_champions \o missing_in_opgg(riot_champions, opgg_champions)
        base_data ==
            IF riot.level > opgg.level
               \/ Len(riot.champion_performances) > Len(opgg.champion_performances)
              THEN riot ELSE opgg
    IN [made |-> TRUE,
        summoner_name |-> base_data.summoner_name,
        region |-> base_data.region,
        level |-> IF riot.level > opgg.level THEN riot.level ELSE opgg.level,
        soloq_rank |-> base_data.soloq_rank,
        flex_rank |-> base_data.flex_rank,
        soloq_lp |-> base_data.soloq_lp,
        flex_lp |-> base_data.flex_lp,
        champion_performances |-> sort_by_games(combined_champions)]

\* _combine_data_sources(opgg_data, riot_data). RiotPlayerAccount has every
\* attribute the hasattr tests ask for, so each field is base_data's.
combine_data_sources(opgg, riot) ==
    LET opgg_champions == by_name(<<>>, opgg.champion_performances)
        riot_champions == by_name(<<>>, riot.champion_performances)
        combined_champions ==
            opgg_champions \o missing_in_opgg(riot_champions, opgg_champions)
        base_data ==
            IF riot.level > opgg.level
               \/ Len(riot.champion_performances) > Len(opgg.champion_performances)
              THEN riot ELSE opgg
    IN [made |-> TRUE,
        summoner_name |-> base_data.summoner_name,
        region |-> base_data.region,
        level |-> base_data.level,
        soloq_rank |-> base_data.soloq_rank,
        flex_rank |-> base_data.flex_rank,
        soloq_lp |-> base_data.soloq_lp,
        flex_lp |-> base_data.flex_lp,
        champion_performances |-> sort_by_games(combined_champions)]

CombineDataSources ==
    /\ ~combined.made
    /\ combined' = combine_data_sources(opgg_data, riot_data)
    /\ UNCHANGED <<opgg_data, riot_data>>
    /\ UNCHANGED notHybrid

HybridNext == CombineDataSources

NamesOf(perfs) == {perfs[i].champion_name : i \in 1..Len(perfs)}

\* C10: the combined list has exactly one entry for every champion name
\* that occurs in the op.gg record or in the Riot record and no other
\* entry; for a name present in both the op.gg entry is kept, and the list
\* is ordered by games_played, most played first.
C10_UnionOfChampions ==
    combined.made =>
        LET cl == combined.champion_performances
            op == opgg_data.champion_performances
            ri == riot_data.champion_performances
        IN /\ NamesOf(cl) = NamesOf(op) \cup NamesOf(ri)
           /\ \A i, j \in 1..Len(cl) :
                 cl[i].champion_name = cl[j].champion_name => i = j
           /\ \A i \in 1..Len(cl) :
                 IF cl[i].champion_name \in NamesOf(op)
                   THEN \E j \in 1..Len(op) : op[j] = cl[i]
                   ELSE \E j \in 1..Len(ri) :
                          /\ ri[j].champion_name = cl[i].champion_name
                          /\ ri[j].games_played = cl[i].games_played
           /\ \A i, j \in 1..Len(cl) :
                 i < j => cl[i].games_played >= cl[j].games_played

\* a champion of both sources with different numbers of games, one of op.gg
\* alone and one of Riot alone
C10_Witness ==
    /\ combined.made
    /\ Len(combined.champion_performances) = 3
    /\ \E i \in 1..Len(opgg_data.champion_performances),
          j \in 1..Len(riot_data.champion_performances) :
          /\ opgg_data.champion_performances[i].champion_name
                = riot_data.champion_performances[j].champion_name
          /\ opgg_data.champion_performances[i].games_played
                # riot_data.champion_performances[j].games_played
    /\ combined.champion_performances[1].games_played
         > combined.champion_performances[3].games_played

AccountFields ==
    {"summoner_name", "region", "level", "soloq_rank", "flex_rank",
     "soloq_lp", "flex_lp"}

RiotMoreComplete ==
    \/ riot_data.level > opgg_data.level
    \/ Len(riot_data.champion_performances)
          > Len(opgg_data.champion_performances)

\* C11: the account fields of the combined record all come from one source:
\* the Riot record when its level is higher than the op.gg level or it lists
\* more champions than the op.gg record, the op.gg record otherwise.
C11_AccountFromOneSource ==
    combined.made =>
        \A f \in AccountFields :
            combined[f] = IF RiotMoreComplete THEN riot_data[f] ELSE opgg_data[f]

\* the Riot record was taken for its longer champion list although its level
\* is the lower one
C11_Witness ==
    /\ combined.made
    /\ riot_data.level < opgg_data.level
    /\ Len(riot_data.champion_performances) > Len(opgg_data.champion_performances)
    /\ combined.soloq_rank = "GOLD IV"
    /\ combined.level = riot_data.level

----------------------------------------------------------------------------
(* HybridScraper.scrape_player_account. An Optional value is a sequence:   *)
(* << >> is None and <<x>> is x.                                           *)

MaxScraped == 2

\* riot_api_key: None, an empty key or a key
ApiKeys == {<< >>, <<"">>, <<"RGAPI-1">>}
SummonerArgs == {"Odd#kimmy", "Faker#KR1"}
RegionArgs == {"euw", "kr"}

\* what RiotApiScraper.scrape_player_account can return for a region
RiotAccounts(region) ==
    [summoner_name : {"Odd"}, summoner_id : {"sid"}, puuid : {"P1"},
     region : {region}, level : RiotLevels,
     soloq_rank : {"GOLD IV"}, flex_rank : {"SILVER I"},
     soloq_lp : {55}, flex_lp : {10},
     champion_performances :
         UNION {[1..n -> {p \in RiotPerformances : p.games_played = 1
                                                     /\ p.champion_name # "Lux"}] :
                n \in 0..MaxScraped}]

\* what SimpleAccountScraper.scrape_player_account can return
OpggAccounts(summoner_name, region) ==
    [summoner_name : {summoner_name}, region : {region}, level : OpggLevels,
     soloq_rank : {"Gold 4"}, flex_rank : {"Unranked"},
     soloq_lp : {50}, flex_lp : {0},
     champion_performances :
         UNION {[1..n -> {p \in OpggPerformances : p.games_played = 1
                                                     /\ p.champion_name # "Lux"}] :
                n \in 0..MaxScraped}]

Optional(S) == {<< >>} \cup {<<x>> : x \in S}

NoScrape == [op |-> "none", summoner_name |-> "", region |-> "",
             calls |-> << >>, riot_result |-> << >>, opgg_result |-> << >>,
             result |-> << >>]

ScraperIdle ==
    /\ riot_api_key = << >>
    /\ has_riot_api = FALSE
    /\ scrapeCall = NoScrape

\* HybridScraper(riot_api_key)
ScraperInit ==
    /\ riot_api_key \in ApiKeys
    /\ has_riot_api = (riot_api_key # << >>)
    /\ scrapeCall = NoScrape

\* the ChampionPerformance _convert_riot_to_opgg builds of a Riot one
convert_champion(riot_champ) ==
    [champion_name |-> riot_champ.champion_name,
     games_played |-> riot_champ.games_played]

convert_riot_to_opgg(riot_account) ==
    [summoner_name |-> riot_account.summoner_name,
     region |-> riot_account.region,
     level |-> riot_account.level,
     soloq_rank |-> riot_account.soloq_rank,
     flex_rank |-> riot_account.flex_rank,
     soloq_lp |-> riot_account.soloq_lp,
     flex_lp |-> riot_account.flex_lp,
     champion_performances |->
         [i \in 1..Len(riot_account.champion_performances) |->
             convert_champion(riot_account.champion_performances[i])]]

\* RiotApiScraper.scrape_player_account returns None without an api_key
riot_scraper_returns(riot_out) ==
    (riot_api_key = << >> \/ riot_api_key = <<"">>) => riot_out = << >>

\* scrape_player_account asking op.gg as well when Riot answered
scrape_player_account_asks_both(summoner_name, region, riot_out, opgg_out) ==
    /\ riot_scraper_returns(riot_out)
    /\ UNCHANGED <<riot_api_key, has_riot_api>>
    /\ UNCHANGED notScraper
    /\ scrapeCall' =
         IF has_riot_api /\ riot_out # << >>
           THEN [op |-> "scrape_player_account",
                 summoner_name |-> summoner_name, region |-> region,
                 calls |-> <<"riot", "opgg">>, riot_result |-> riot_out,
                 opgg_result |-> opgg_out,
                 result |-> <<convert_riot_to_opgg(riot_out[1])>>]
           ELSE [op |-> "scrape_player_account",
                 summoner_name |-> summoner_name, region |-> region,
                 calls |-> IF has_riot_api THEN <<"riot", "opgg">>
                                           ELSE <<"opgg">>,
                 riot_result |-> << >>, opgg_result |-> opgg_out,
                 result |-> opgg_out]

\* scrape_player_account(summoner_name, region): riot_out and opgg_out are
\* what the two scrapers return if they are called
scrape_player_account(summoner_name, region, riot_out, opgg_out) ==
    /\ riot_scraper_returns(riot_out)
    /\ UNCHANGED <<riot_api_key, has_riot_api>>
    /\ UNCHANGED notScraper
    /\ scrapeCall' =
         IF has_riot_api /\ riot_out # << >>
           THEN [op |-> "scrape_player_account",
                 summoner_name |-> summoner_name, region |-> region,
                 calls |-> <<"riot">>, riot_result |-> riot_out,
                 opgg_result |-> << >>,
                 result |-> <<convert_riot_to_opgg(riot_out[1])>>]
           ELSE [op |-> "scrape_player_account",
                 summoner_name |-> summoner_name, region |-> region,
                 calls |-> IF has_riot_api THEN <<"riot", "opgg">>
                                           ELSE <<"opgg">>,
                 riot_result |-> << >>, opgg_result |-> opgg_out,
                 result |-> opgg_out]

ScraperNext ==
    \E summoner_name \in SummonerArgs, region \in RegionArgs :
        \E riot_out \in Optional(RiotAccounts(region)),
           opgg_out \in Optional(OpggAccounts(summoner_name, region)) :
            scrape_player_account(summoner_name, region, riot_out, opgg_out)

Called(c, who) == \E i \in 1..Len(c.calls) : c.calls[i] = who

SameAccount(riot_account, account) ==
    /\ \A f \in AccountFields : account[f] = riot_account[f]
    /\ Len(account.champion_performances)
         = Len(riot_account.champion_performances)
    /\ \A i \in 1..Len(account.champion_performances) :
          /\ account.champion_performances[i].champion_name
               = riot_account.champion_performances[i].champion_name
          /\ account.champion_performances[i].games_played
               = riot_account.champion_performances[i].games_played

BestMethodFirst ==
    scrapeCall'.op = "scrape_player_account" =>
        LET c == scrapeCall'
            with_key == riot_api_key # << >>
            riot_answered == Called(c, "riot") /\ c.riot_result # << >>
        IN /\ with_key => Len(c.calls) >= 1 /\ c.calls[1] = "riot"
           /\ ~with_key => ~Called(c, "riot")
           /\ Called(c, "opgg") <=> (~with_key \/ ~riot_answered)
           /\ Len(c.calls) <= 2 /\ (Len(c.calls) = 2 => c.calls[1] # c.calls[2])
           /\ riot_answered =>
                 /\ c.result # << >>
                 /\ SameAccount(c.riot_result[1], c.result[1])
           /\ ~riot_answered => c.result = c.opgg_result
           /\ c.result = << >> => Called(c, "opgg") /\ c.opgg_result = << >>

\* C12: with an API key scrape_player_account asks the Riot scraper first
\* and returns its converted result when there is one; it calls the op.gg
\* scraper only when no key is configured or the Riot scraper returned
\* nothing; without a key the Riot scraper is never called. The result is
\* None only when the op.gg scraper was called and returned None.
C12_BestMethodFirst == [][BestMethodFirst]_vars

\* with a key the Riot scraper returned nothing and op.gg answered
C12_Witness ==
    /\ scrapeCall.op = "scrape_player_account"
    /\ riot_api_key = <<"RGAPI-1">>
    /\ scrapeCall.calls = <<"riot", "opgg">>
    /\ scrapeCall.result # << >>
    /\ scrapeCall.result[1].summoner_name = "Faker#KR1"

----------------------------------------------------------------------------
(* TournamentScraper: the games detected in an op.gg match history page    *)
(* and the TournamentStats computed of them.                               *)

MaxCustom == 2

\* the dates the CUSTOM pattern can find in a page, the indicator words
\* _find_official_tournament_games looks for (four of them occur in the
\* pages of the model) and the codes _find_tournament_codes can find
PageDates == {"2024-01-05", "2024-02-11"}
official_indicators ==
    <<"OFFICIAL", "TOURNAMENT", "COMPETITIVE", "PRO", "LCS", "LEC", "LCK",
      "LPL", "WORLDS", "MSI">>
PageWords == {"OFFICIAL", "TOURNAMENT", "PRO", "MSI"}
PageCodes == {"EUW2024"}
StatusCodes == {200, 404}

Pages ==
    [custom_dates : UNION {[1..n -> PageDates] : n \in 0..MaxCustom},
     words : SUBSET PageWords,
     codes : SUBSET PageCodes]

NoPage == [custom_dates |-> << >>, words |-> {}, codes |-> {}]

TournamentIdle ==
    /\ page = NoPage
    /\ tournament_stats = << >>
    /\ tournament_call = "none"

TournamentInit ==
    /\ page \in Pages
    /\ tournament_stats = << >>
    /\ tournament_call = "none"

\* the TournamentGame of _find_custom_games and
\* _find_official_tournament_games: result is always "UNKNOWN"
TournamentGame(game_id, game_type, tournament_code, date) ==
    [game_id |-> game_id, game_type |-> game_type,
     tournament_code |-> tournament_code, date |-> date,
     result |-> "UNKNOWN", champion |-> "Unknown", kda |-> 0]

\* one game for each date found, numbered from 0
find_custom_games(p) ==
    [i \in 1..Len(p.custom_dates) |->
        TournamentGame("custom_" \o ToString(i - 1) \o "_" \o p.custom_dates[i],
                       "CUSTOM", "CUSTOM_" \o p.custom_dates[i],
                       p.custom_dates[i])]

RECURSIVE find_official_from(_, _)
\* one game for each indicator that occurs in the page; the date is today
find_official_from(i, p) ==
    IF i > Len(official_indicators) THEN << >>
    ELSE LET indicator == official_indicators[i]
             rest == find_official_from(i + 1, p)
         IN IF indicator \in p.words
              THEN <<TournamentGame("official_" \o indicator, "OFFICIAL",
                                    indicator, "today")>> \o rest
              ELSE rest

find_official_tournament_games(p) == find_official_from(1, p)

RECURSIVE unique_games(_, _)
\* the first game of each game_id, in the order of the list
unique_games(seen, games) ==
    IF games = << >> THEN seen
    ELSE unique_games(IF \E i \in 1..Len(seen) :
                             seen[i].game_id = Head(games).game_id
                        THEN seen ELSE Append(seen, Head(games)),
                      Tail(games))

CountResult(games, result) ==
    Cardinality({i \in 1..Len(games) : games[i].result = result})

create_empty_tournament_stats ==
    [total_tournament_games |-> 0, tournament_wins |-> 0,
     tournament_losses |-> 0, most_played_champion |-> "None",
     tournament_codes |-> {}]

calculate_tournament_stats(tournament_games, tournament_codes) ==
    IF tournament_games = << >> THEN create_empty_tournament_stats
    ELSE [total_tournament_games |-> Len(tournament_games),
          tournament_wins |-> CountResult(tournament_games, "WIN"),
          tournament_losses |-> CountResult(tournament_games, "LOSS"),
          most_played_champion |-> "Unknown",
          tournament_codes |-> tournament_codes]

parse_tournament_games(p) ==
    LET tournament_games ==
            unique_games(<< >>, find_custom_games(p)
                                  \o find_official_tournament_games(p))
    IN calculate_tournament_stats(tournament_games, p.codes)

\* scrape_tournament_games: the page is parsed when op.gg answers 200
scrape_tournament_games(status_code) ==
    /\ tournament_call = "none"
    /\ tournament_call' = "scrape_tournament_games"
    /\ tournament_stats' = IF status_code = 200
                             THEN <<parse_tournament_games(page)>>
                             ELSE << >>
    /\ UNCHANGED page
    /\ UNCHANGED notTournament

TournamentNext == \E status_code \in StatusCodes : scrape_tournament_games(status_code)

\* C13: every TournamentStats returned by TournamentScraper satisfies
\* total_tournament_games = tournament_wins + tournament_losses.
C13_GamesAreWinsPlusLosses ==
    tournament_stats # << >> =>
        tournament_stats[1].total_tournament_games
            = tournament_stats[1].tournament_wins
                + tournament_stats[1].tournament_losses

-----------------------------------------------------------------------------
(* ScoutLEBot: team_data, team_data.json and the commands that change      *)
(* them. The bot owns a ManualMatchStorage: its commands work on matches    *)
(* and file of the store above.                                             *)

\* everything no command of the bot touches
outsideBot == <<last, kdaVars, trendVars, analyzerVars, clientVars, hybridVars,
      scraperVars, tournamentVars, topVars, guiVars>>

MaxBotMatches == 2

\* ctx.guild.id of the server a command is issued in
Guilds == {"1", "2"}
\* ctx.author.name
Author == "ann"
\* the riot_id arguments: two spellings of one Riot ID, another one, and a
\* name without a tag
RiotIdArgs == {"Faker#KR1", "faker#kr1", "Odd#kimmy", "Odd"}
\* '#' in riot_id
HasTag(riot_id) == riot_id \in {"Faker#KR1", "faker#kr1", "Odd#kimmy"}
TeamNames == {"Main"}
\* the write of save_matches succeeds or open() raises
BotIo == {"ok", "open_fails"}

\* dict operations: d[k] = v, del d[k], d.get(k, default)
Put(d, k, v) == [x \in DOMAIN d \cup {k} |-> IF x = k THEN v ELSE d[x]]
Del(d, k) == [x \in DOMAIN d \ {k} |-> d[x]]
Get(d, k, default) == IF k \in DOMAIN d THEN d[k] ELSE default

\* A player record. discord_id and registered_at are written once and never
\* read by the modelled commands; they are left out.
Player(region, by, updated, stats) ==
    [region |-> region, registered_by |-> by, last_updated |-> updated,
     ranked_stats |-> stats]

\* team_data.json as the bot finds it when it starts: missing, written by a
\* single-server version (top-level players, with or without teams and
\* settings), holding servers only, or holding servers next to top-level
\* players and teams.
FilePlayers == [x \in {"Faker#KR1"} |-> Player("kr", "bob", <<"2025-01-01T12:00:00">>, <<"Gold 4">>)]
FileTeams ==
    [x \in {"Main"} |-> [name |-> "Main", players |-> <<"Faker#KR1">>, created_by |-> "bob"]]
TeamFiles ==
    { << >>,
      <<[players |-> FilePlayers]>>,
      <<[players |-> FilePlayers, teams |-> FileTeams,
         settings |-> [auto_updates |-> TRUE]]>>,
      <<[servers |-> [default |-> [players |-> FilePlayers, teams |-> FileTeams,
                                   settings |-> << >>]]]>>,
      <<[servers |-> << >>, players |-> << >>]>>,
      <<[servers |-> << >>, players |-> FilePlayers, teams |-> FileTeams]>> }

\* load_team_data that does not write the migrated data back
load_team_data_keeps_file(f) ==
    IF f # << >>
      THEN LET data == f[1]
           IN IF "players" \in DOMAIN data /\ "servers" \notin DOMAIN data
                THEN [team_data |->
                        [servers |->
                          [default |->
                            [players |-> Get(data, "players", << >>),
                             teams |-> Get(data, "teams", << >>),
                             settings |-> Get(data, "settings", << >>)]]],
                      team_file |-> f]
                ELSE [team_data |-> data, team_file |-> f]
      ELSE [team_data |-> [servers |-> << >>],
            team_file |-> <<[servers |-> << >>]>>]

\* load_team_data: the loaded team_data and the file afterwards
load_team_data(f) ==
    IF f # << >>
      THEN LET data == f[1]
           IN IF "players" \in DOMAIN data /\ "servers" \notin DOMAIN data
                THEN LET migrated ==
                           [servers |->
                             [default |->
                               [players |-> Get(data, "players", << >>),
                                teams |-> Get(data, "teams", << >>),
                                settings |-> Get(data, "settings", << >>)]]]
                     IN [team_data |-> migrated, team_file |-> <<migrated>>]
                ELSE [team_data |-> data, team_file |-> f]
      ELSE [team_data |-> [servers |-> << >>],
            team_file |-> <<[servers |-> << >>]>>]

\* the last command: where it was issued, its arguments, what it answered
BotCall(op, guild, riot_id, arg, outcome) ==
    [op |-> op, guild |-> guild, riot_id |-> riot_id, arg |-> arg,
     outcome |-> outcome]

BotIdle ==
    /\ team_data = << >>
    /\ team_file = << >>
    /\ botCall = BotCall("none", "None", "", "", << >>)

\* ScoutLEBot(): the manual match store is empty, team_data is loaded
BotInit ==
    \E f \in TeamFiles :
        /\ team_data = load_team_data(f).team_data
        /\ team_file = load_team_data(f).team_file
        /\ botCall = BotCall("load", "None", "", "", f)

\* the bot is stopped and started again: both files are read anew
Restart ==
    /\ team_data' = load_team_data(team_file).team_data
    /\ team_file' = load_team_data(team_file).team_file
    /\ matches' = load_matches(file)
    /\ file' = file
    /\ botCall' = BotCall("load", "None", "", "", team_file)
    /\ UNCHANGED outsideBot

\* a command that answers and changes nothing. An exception of a command is
\* handed to on_command_error, which sends it as the answer.
Answers(op, guild, riot_id, arg, outcome) ==
    /\ botCall' = BotCall(op, guild, riot_id, arg, outcome)
    /\ UNCHANGED <<team_data, team_file, matches, file>>
    /\ UNCHANGED outsideBot

\* self.team_data["players"] raises KeyError without the top-level key
NoPlayersKey == "players" \notin DOMAIN team_data

\* save_team_data after team_data became td
Saves(td) ==
    /\ team_data' = td
    /\ team_file' = <<td>>

\* ManualMatchStorage.get_matches_for_summoner
get_matches_for_summoner(ms, summoner_name) ==
    SelectSeq(ms, LAMBDA m : lower(m.summoner_name) = lower(summoner_name))

\* [m for m in self.manual_storage.matches if m.summoner_name != riot_id]
matches_without(ms, riot_id) ==
    SelectSeq(ms, LAMBDA m : m.summoner_name # riot_id)

\* list.remove(x) on a list that holds x
list_remove(l, x) ==
    LET i == CHOOSE j \in 1..Len(l) : l[j] = x /\ \A k \in 1..(j - 1) : l[k] # x
    IN SubSeq(l, 1, i - 1) \o SubSeq(l, i + 1, Len(l))

\* !addgame. upper is str.upper() on the result arguments, stamp is
\* datetime.now() to the second as line 820 formats it.
add_game(guild, riot_id, champion, result, io) ==
    LET upper(s) == IF s = "win" THEN "WIN" ELSE IF s = "draw" THEN "DRAW" ELSE s
        stamp == "20250101_120000"
    IN
    IF upper(result) \notin {"WIN", "LOSS"}
      THEN Answers("addgame", guild, riot_id, result, "must be WIN or LOSS")
      ELSE LET match_id == "MANUAL_" \o riot_id \o "_" \o stamp
               match == [match_id |-> match_id, summoner_name |-> riot_id,
                         champion_name |-> champion, result |-> upper(result)]
           IN IF HasId(matches, match_id)
                THEN Answers("addgame", guild, riot_id, result, "failed")
                ELSE /\ Len(matches) < MaxBotMatches
                     /\ matches' = Append(matches, match)
                     /\ file' = save_matches(matches', file, io)
                     /\ botCall' = BotCall("addgame", guild, riot_id, result, "added")
                     /\ UNCHANGED <<team_data, team_file>>
                     /\ UNCHANGED outsideBot

\* !createteam
create_team(guild, team_name) ==
    IF team_name \in DOMAIN Get(team_data, "teams", << >>)
      THEN Answers("createteam", guild, "", team_name, "already exists")
      ELSE /\ Saves(Put(team_data, "teams",
                        Put(Get(team_data, "teams", << >>), team_name,
                            [name |-> team_name, players |-> << >>,
                             created_by |-> Author])))
           /\ botCall' = BotCall("createteam", guild, "", team_name, "created")
           /\ UNCHANGED <<matches, file>>
           /\ UNCHANGED outsideBot

\* the elements of a list
Elems(l) == {l[i] : i \in 1..Len(l)}

\* !addtoteam
add_to_team(guild, team_name, riot_id) ==
    IF team_name \notin DOMAIN Get(team_data, "teams", << >>)
      THEN Answers("addtoteam", guild, riot_id, team_name, "no such team")
    ELSE IF NoPlayersKey
      THEN Answers("addtoteam", guild, riot_id, team_name, "KeyError")
    ELSE IF riot_id \notin DOMAIN team_data.players
      THEN Answers("addtoteam", guild, riot_id, team_name, "not registered")
    ELSE IF riot_id \in Elems(team_data.teams[team_name].players)
      THEN Answers("addtoteam", guild, riot_id, team_name, "already in team")
    ELSE /\ Saves([team_data EXCEPT !.teams[team_name].players = Append(@, riot_id)])
         /\ botCall' = BotCall("addtoteam", guild, riot_id, team_name, "added")
         /\ UNCHANGED <<matches, file>>
         /\ UNCHANGED outsideBot

\* the teams after riot_id was removed from every roster that holds it
rosters_without(teams, riot_id) ==
    [t \in DOMAIN teams |->
        IF riot_id \in Elems(teams[t].players)
          THEN [teams[t] EXCEPT !.players = list_remove(@, riot_id)]
          ELSE teams[t]]

\* !remove, !unregister
remove_player(guild, riot_id, io) ==
    IF NoPlayersKey
      THEN Answers("remove", guild, riot_id, "", "KeyError")
    ELSE IF riot_id \notin DOMAIN team_data.players
      THEN Answers("remove", guild, riot_id, "", "not registered")
    ELSE LET td == IF "teams" \in DOMAIN team_data
                     THEN [team_data EXCEPT
                             !.teams = rosters_without(@, riot_id)]
                     ELSE team_data
         IN /\ matches' = matches_without(matches, riot_id)
            /\ file' = save_matches(matches', file, io)
            /\ Saves([td EXCEPT !.players = Del(@, riot_id)])
            /\ botCall' = BotCall("remove", guild, riot_id, "", "removed")
            /\ UNCHANGED outsideBot

\* the confirmation argument: missing, the word, another spelling of it
ConfirmArgs == {<< >>, <<"confirm">>, <<"CONFIRM">>}

\* the players with ranked_stats and last_updated of those in ids set to None
stats_reset(players, ids) ==
    [p \in DOMAIN players |->
        IF p \in ids
          THEN [players[p] EXCEPT !.ranked_stats = << >>, !.last_updated = << >>]
          ELSE players[p]]

\* !clearall that also empties the teams, as !unregisterall does
clear_all_stats_and_teams(guild, confirmation, io) ==
    IF NoPlayersKey
      THEN Answers("clearall", guild, "", confirmation, "KeyError")
    ELSE IF confirmation # <<"confirm">>
      THEN Answers("clearall", guild, "", confirmation, "warning")
    ELSE /\ matches' = << >>
         /\ file' = save_matches(<< >>, file, io)
         /\ Saves(Put([team_data EXCEPT !.players = stats_reset(@, DOMAIN @)],
                       "teams", << >>))
         /\ botCall' = BotCall("clearall", guild, "", confirmation, "cleared")
         /\ UNCHANGED outsideBot

\* !clearall that takes any spelling of the word
clear_all_stats_any_case(guild, confirmation, io) ==
    IF NoPlayersKey
      THEN Answers("clearall", guild, "", confirmation, "KeyError")
    ELSE IF confirmation \notin {<<"confirm">>, <<"CONFIRM">>}
      THEN Answers("clearall", guild, "", confirmation, "warning")
    ELSE /\ matches' = << >>
         /\ file' = save_matches(<< >>, file, io)
         /\ Saves([team_data EXCEPT !.players = stats_reset(@, DOMAIN @)])
         /\ botCall' = BotCall("clearall", guild, "", confirmation, "cleared")
         /\ UNCHANGED outsideBot

\* !clearstats
clear_player_stats(guild, riot_id, io) ==
    IF NoPlayersKey
      THEN Answers("clearstats", guild, riot_id, "", "KeyError")
    ELSE IF riot_id \notin DOMAIN team_data.players
      THEN Answers("clearstats", guild, riot_id, "", "not registered")
    ELSE /\ matches' = matches_without(matches, riot_id)
         /\ file' = save_matches(matches', file, io)
         /\ Saves([team_data EXCEPT !.players = stats_reset(@, {riot_id})])
         /\ botCall' = BotCall("clearstats", guild, riot_id, "", "cleared")
         /\ UNCHANGED outsideBot

\* !clearall. Both branches read len(self.team_data["players"]) before
\* anything is changed.
clear_all_stats(guild, confirmation, io) ==
    IF NoPlayersKey
      THEN Answers("clearall", guild, "", confirmation, "KeyError")
    ELSE IF confirmation # <<"confirm">>
      THEN Answers("clearall", guild, "", confirmation, "warning")
    ELSE /\ matches' = << >>
         /\ file' = save_matches(<< >>, file, io)
         /\ Saves([team_data EXCEPT !.players = stats_reset(@, DOMAIN @)])
         /\ botCall' = BotCall("clearall", guild, "", confirmation, "cleared")
         /\ UNCHANGED outsideBot

\* !unregisterall
unregister_all_players(guild, confirmation, io) ==
    IF NoPlayersKey
      THEN Answers("unregisterall", guild, "", confirmation, "KeyError")
    ELSE IF confirmation # <<"confirm">>
      THEN Answers("unregisterall", guild, "", confirmation, "warning")
    ELSE /\ matches' = << >>
         /\ file' = save_matches(<< >>, file, io)
         /\ Saves(Put(Put(team_data, "players", << >>), "teams", << >>))
         /\ botCall' = BotCall("unregisterall", guild, "", confirmation, "deleted")
         /\ UNCHANGED outsideBot

\* the words after !register
RegisterArgs == {<<"Faker#KR1", "KR">>, <<"Odd#kimmy">>, <<"Odd", "euw">>}

RECURSIVE join(_)
\* ' '.join(parts)
join(parts) ==
    IF Len(parts) = 0 THEN ""
    ELSE IF Len(parts) = 1 THEN parts[1]
    ELSE parts[1] \o " " \o join(Tail(parts))

\* how many parts make up the Riot ID: all up to the first one with a '#'
riot_id_len(parts) ==
    IF \E i \in 1..Len(parts) : HasTag(parts[i])
      THEN CHOOSE i \in 1..Len(parts) :
               HasTag(parts[i]) /\ \A j \in 1..(i - 1) : ~HasTag(parts[j])
      ELSE Len(parts)

\* the parameters of RiotApiScraper.get_match_history besides self
get_match_history_params == {"puuid", "region", "count"}
\* a call of get_match_history with the keyword arguments kw: Python raises
\* TypeError for a keyword the function does not have, else the call
\* returns the match ids
call_get_match_history(kw, match_ids) ==
    IF kw \subseteq get_match_history_params
      THEN [raised |-> FALSE, value |-> match_ids]
      ELSE [raised |-> TRUE, value |-> "TypeError"]

\* the ranked match ids the API has for a player
History == <<"EUW1_1", "EUW1_2">>

RECURSIVE import_ranked(_, _, _, _)
\* the loop over match_ids of sync_recent_games and of step 2 of
\* register_player: a match with details in which the player took part is
\* appended as SYNC_<match_id> unless that id is stored already
import_ranked(ms, riot_id, match_ids, found) ==
    IF match_ids = << >> THEN ms
    ELSE LET match_id == Head(match_ids)
             manual_match_id == "SYNC_" \o match_id
             match == [match_id |-> manual_match_id, summoner_name |-> riot_id,
                       champion_name |-> "Ahri", result |-> "WIN"]
         IN import_ranked(
                IF match_id \in found /\ ~HasId(ms, manual_match_id)
                  THEN Append(ms, match) ELSE ms,
                riot_id, Tail(match_ids), found)

\* the test with Clash let through
is_custom_queue_or_clash(queue_id) ==
    queue_id = 0 \/ queue_id = 700 \/ (2000 <= queue_id /\ queue_id <= 2020)

\* the test of lines 1634 and 446: queue 0 or a tournament code queue
is_custom_queue(queue_id) ==
    queue_id = 0 \/ (2000 <= queue_id /\ queue_id <= 2020)

\* What get_match_details returns for the match ids of the model: the
\* queueId and, of each participant, puuid, riotIdGameName and
\* riotIdTagline. P1 is the puuid of Faker#KR1, P2 that of Odd#kimmy.
Games ==
    LET faker == [puuid |-> "P1", name |-> "Faker", tag |-> "KR1"]
        untagged == [puuid |-> "P1", name |-> "faker", tag |-> ""]
        odd == [puuid |-> "P2", name |-> "Odd", tag |-> "kimmy"]
        guest == [puuid |-> "P3", name |-> "Guest", tag |-> "euw"]
    IN [EUW1_10 |-> [queueId |-> 0, participants |-> <<faker, odd>>],
        EUW1_12 |-> [queueId |-> 2020, participants |-> <<untagged, odd>>],
        EUW1_13 |-> [queueId |-> 2021, participants |-> <<faker, odd>>],
        EUW1_14 |-> [queueId |-> 700, participants |-> <<faker, odd>>],
        EUW1_1 |-> [queueId |-> 420, participants |-> <<faker, guest>>],
        EUW1_2 |-> [queueId |-> 420, participants |-> <<faker, odd>>]]

RECURSIVE add_participants(_, _, _, _, _)
\* the loop over the participants of one custom game: a match is added for
\* every participant who is registered, under the Riot ID or, failing that,
\* under a registered Riot ID with the same game name in lower case (the
\* model never registers two of those)
add_participants(ms, players, match_id, game_type, participants) ==
    IF participants = << >> THEN ms
    ELSE LET p == Head(participants)
             low(s) == IF s = "Faker" THEN "faker" ELSE IF s = "Odd" THEN "odd" ELSE s
             base(id) == IF id \in {"Faker#KR1", "faker#kr1"} THEN "faker"
                         ELSE IF id = "Odd#kimmy" THEN "odd" ELSE id
             typed == IF p.tag # "" THEN p.name \o "#" \o p.tag ELSE p.name
             same_name == {id \in DOMAIN players : base(id) = low(p.name)}
             is_registered == typed \in DOMAIN players \/ same_name # {}
             p_riot_id == IF typed \in DOMAIN players THEN typed
                          ELSE CHOOSE id \in same_name : TRUE
             p_match_id == "CUSTOM_" \o match_id \o "_" \o p_riot_id
             p_match == [match_id |-> p_match_id, summoner_name |-> p_riot_id,
                         champion_name |-> "Ahri", result |-> "WIN",
                         queue_type |-> game_type]
         IN add_participants(
                IF is_registered /\ ~HasId(ms, p_match_id)
                  THEN Append(ms, p_match) ELSE ms,
                players, match_id, game_type, Tail(participants))

RECURSIVE import_custom(_, _, _, _, _)
\* the loop over match_ids of sync_custom_games and of step 3 of
\* register_player. own is << >> in register_player; in sync_custom_games
\* it holds the puuid and the Riot ID of the player, and a game without
\* that player or already imported for that player is passed over.
import_custom(ms, players, match_ids, found, own) ==
    IF match_ids = << >> THEN ms
    ELSE LET match_id == Head(match_ids)
             d == Games[match_id]
             game_type == IF d.queueId = 0 THEN "custom" ELSE "tournament"
             passed_over ==
                 /\ own # << >>
                 /\ \/ \A i \in 1..Len(d.participants) :
                          d.participants[i].puuid # own[1].puuid
                    \/ HasId(ms, "CUSTOM_" \o match_id \o "_" \o own[1].riot_id)
         IN import_custom(
                IF match_id \in found /\ is_custom_queue(d.queueId) /\ ~passed_over
                  THEN add_participants(ms, players, match_id, game_type,
                                        d.participants)
                  ELSE ms,
                players, Tail(match_ids), found, own)

\* !register. account: scrape_player_account returned an account;
\* summoner_info: get_summoner_by_name found the summoner; found: the
\* matches with details and the player among the participants. Whatever
\* the scan raises is caught and answered with "auto-scan failed". Step 3,
\* the scan for custom games, comes after the call of step 2.
register_player(guild, parts, account, summoner_info, found, io) ==
    LET n == riot_id_len(parts)
        riot_id == join(SubSeq(parts, 1, n))
        region == lower(IF Len(parts) > n THEN parts[n + 1] ELSE "euw")
        new == Player(region, Author, << >>, << >>)
        \* ranked_stats built from the account, last_updated its time
        scanned == IF account
                     THEN Player(region, Author, <<"2025-06-01T12:00:00">>, <<"Gold 4">>)
                     ELSE new
        history == call_get_match_history({"queue"}, History)
    IN  IF NoPlayersKey
          THEN Answers("register", guild, riot_id, region, "KeyError")
        ELSE IF riot_id \in DOMAIN team_data.players
          THEN Answers("register", guild, riot_id, region, "already registered")
        ELSE IF ~HasTag(riot_id)
          THEN Answers("register", guild, riot_id, region, "invalid format")
        ELSE /\ Saves([team_data EXCEPT !.players = Put(@, riot_id, scanned)])
             /\ IF ~summoner_info
                  THEN /\ botCall' = BotCall("register", guild, riot_id, region, "registered")
                       /\ UNCHANGED <<matches, file>>
                ELSE IF history.raised
                  THEN /\ botCall' = BotCall("register", guild, riot_id, region,
                                             "auto-scan failed")
                       /\ UNCHANGED <<matches, file>>
                  ELSE /\ matches' =
                            import_custom(
                                import_ranked(matches, riot_id, history.value, found),
                                team_data'.players, History, found, << >>)
                       /\ file' = IF matches' # matches
                                    THEN save_matches(matches', file, io)
                                    ELSE file
                       /\ botCall' = BotCall("register", guild, riot_id, region, "registered")
             /\ UNCHANGED outsideBot

\* the words after !sync
SyncArgs == {<<"Faker#KR1">>, <<"Faker#KR1", "1">>, <<"Odd#kimmy", "600">>}
\* the count of !sync: the first number after the Riot ID, else 20.
\* isdigit and int are str.isdigit() and int() on the words the model uses.
sync_count(parts) ==
    LET n == riot_id_len(parts)
        isdigit(s) == s \in {"1", "600"}
        int(s) == IF s = "1" THEN 1 ELSE 600
    IN IF \E i \in (n + 1)..Len(parts) : isdigit(parts[i])
         THEN int(parts[CHOOSE i \in (n + 1)..Len(parts) :
                          isdigit(parts[i])
                          /\ \A j \in (n + 1)..(i - 1) : ~isdigit(parts[j])])
         ELSE 20

\* the match ids the API returns for count
first_ids(count) ==
    SubSeq(History, 1, IF count < Len(History) THEN count ELSE Len(History))

\* !sync. summoner_info: get_summoner_by_name found the summoner; found:
\* the matches with details and the player among the participants.
sync_recent_games(guild, parts, summoner_info, found, io) ==
    LET riot_id == join(SubSeq(parts, 1, riot_id_len(parts)))
        count == IF sync_count(parts) > 500 THEN 500 ELSE sync_count(parts)
        arg == [count |-> count, summoner_info |-> summoner_info, found |-> found]
        history == call_get_match_history({"queue"}, first_ids(count))
    IN  IF NoPlayersKey
          THEN Answers("sync", guild, riot_id, arg, "KeyError")
        ELSE IF riot_id \notin DOMAIN team_data.players
          THEN Answers("sync", guild, riot_id, arg, "not registered")
        ELSE IF ~HasTag(riot_id)
          THEN Answers("sync", guild, riot_id, arg, "invalid format")
        ELSE IF ~summoner_info
          THEN Answers("sync", guild, riot_id, arg, "summoner not found")
        ELSE IF history.raised
          THEN Answers("sync", guild, riot_id, arg, "error fetching match history")
        ELSE IF history.value = << >>
          THEN Answers("sync", guild, riot_id, arg, "no recent ranked games")
        ELSE /\ matches' = import_ranked(matches, riot_id, history.value, found)
             /\ file' = IF matches' # matches THEN save_matches(matches', file, io)
                                              ELSE file
             /\ botCall' = BotCall("sync", guild, riot_id, arg, "synced")
             /\ UNCHANGED <<team_data, team_file>>
             /\ UNCHANGED outsideBot

\* the lists of match ids the API may return: up to MaxIds of the games
MaxIds == 1
IdLists ==
    {l \in UNION {[1..n -> DOMAIN Games] : n \in 0..MaxIds} :
        \A i, j \in 1..Len(l) : i # j => l[i] # l[j]}

\* !synccustom. summoner_info: get_summoner_by_name found the summoner;
\* match_ids: what get_match_history returned; found: the matches
\* get_match_details returned details for.
sync_custom_games(guild, parts, summoner_info, match_ids, found, io) ==
    LET riot_id == join(SubSeq(parts, 1, riot_id_len(parts)))
        count == IF sync_count(parts) > 500 THEN 500 ELSE sync_count(parts)
        arg == [count |-> count]
        history == call_get_match_history({}, match_ids)
        puuid == IF riot_id = "Faker#KR1" THEN "P1" ELSE "P2"
    IN  IF NoPlayersKey
          THEN Answers("synccustom", guild, riot_id, arg, "KeyError")
        ELSE IF riot_id \notin DOMAIN team_data.players
          THEN Answers("synccustom", guild, riot_id, arg, "not registered")
        ELSE IF ~HasTag(riot_id)
          THEN Answers("synccustom", guild, riot_id, arg, "invalid format")
        ELSE IF ~summoner_info
          THEN Answers("synccustom", guild, riot_id, arg, "summoner not found")
        ELSE IF history.raised
          THEN Answers("synccustom", guild, riot_id, arg, "error fetching match history")
        ELSE IF history.value = << >>
          THEN Answers("synccustom", guild, riot_id, arg, "no recent games")
        ELSE /\ matches' = import_custom(matches, team_data.players, history.value,
                                         found, <<[puuid |-> puuid, riot_id |-> riot_id]>>)
             /\ file' = IF matches' # matches THEN save_matches(matches', file, io)
                                              ELSE file
             /\ botCall' = BotCall("synccustom", guild, riot_id, arg, "scanned")
             /\ UNCHANGED <<team_data, team_file>>
             /\ UNCHANGED outsideBot

\* the commands on players, teams and matches, issued in one guild: none of
\* them reads ctx.guild
BotNext ==
    \/ Restart
    \/ \E r \in RiotIdArgs \ {"Odd"}, res \in {"win", "draw"},
          io \in BotIo :
          add_game("1", r, "Ahri", res, io)
    \/ \E t \in TeamNames : create_team("1", t)
    \/ \E t \in TeamNames, r \in RiotIdArgs : add_to_team("1", t, r)
    \/ \E r \in RiotIdArgs, io \in BotIo : remove_player("1", r, io)
    \/ \E r \in RiotIdArgs, io \in BotIo :
          clear_player_stats("1", r, io)
    \/ \E c \in ConfirmArgs, io \in BotIo : clear_all_stats("1", c, io)
    \/ \E c \in ConfirmArgs, io \in BotIo :
          unregister_all_players("1", c, io)

\* the commands that scan the match history for custom games
CustomNext ==
    \/ \E a \in RegisterArgs, acc \in BOOLEAN, info \in BOOLEAN :
          register_player("1", a, acc, info, Elems(History), "ok")
    \/ \E a \in SyncArgs \ {<<"Faker#KR1", "1">>}, info \in BOOLEAN, ids \in IdLists :
          \E found \in SUBSET Elems(ids) :
              sync_custom_games("1", a, info, ids, found, "ok")

\* the commands that register players, import their games and create teams
RegisterNext ==
    \/ Restart
    \/ \E g \in Guilds, a \in RegisterArgs, acc \in BOOLEAN, info \in BOOLEAN,
          found \in SUBSET Elems(History), io \in BotIo :
          register_player(g, a, acc, info, found, io)
    \/ \E g \in Guilds, a \in SyncArgs, info \in BOOLEAN,
          found \in SUBSET Elems(History), io \in BotIo :
          sync_recent_games(g, a, info, found, io)
    \/ \E g \in Guilds, t \in TeamNames : create_team(g, t)

\* the registered players: the keys of the top-level players dict
Registered(td) == DOMAIN Get(td, "players", << >>)
\* the teams of the top-level teams dict that hold riot_id
TeamsOf(td, riot_id) ==
    {t \in DOMAIN Get(td, "teams", << >>) : riot_id \in Elems(td.teams[t].players)}
\* the matches get_matches_for_summoner does not return for riot_id
MatchesOfOthers(ms, riot_id) ==
    SelectSeq(ms, LAMBDA m : lower(m.summoner_name) # lower(riot_id))

\* the step is the command op on a registered player
OnRegistered(op) ==
    /\ botCall'.op = op
    /\ botCall'.riot_id \in Registered(team_data)

\* C14: after !remove of a registered player the Riot ID is not registered,
\* it is in no team's roster and get_matches_for_summoner(riot_id) returns
\* an empty list; the records, the roster entries and the matches of the
\* other players are unchanged.
RemoveRemovesAll ==
    OnRegistered("remove") =>
        LET riot_id == botCall'.riot_id
        IN /\ riot_id \notin Registered(team_data')
           /\ TeamsOf(team_data', riot_id) = {}
           /\ get_matches_for_summoner(matches', riot_id) = << >>
           /\ \A p \in Registered(team_data) \ {riot_id} :
                /\ p \in Registered(team_data')
                /\ team_data'.players[p] = team_data.players[p]
                /\ TeamsOf(team_data', p) = TeamsOf(team_data, p)
           /\ MatchesOfOthers(matches', riot_id) = MatchesOfOthers(matches, riot_id)
C14_RemoveRemovesAll == [][RemoveRemovesAll]_vars

\* the registered players, their regions and registrants and the teams with
\* their rosters are the same before and after the step
KeepsRegistrations ==
    /\ Registered(team_data') = Registered(team_data)
    /\ \A p \in Registered(team_data) :
         /\ team_data'.players[p].region = team_data.players[p].region
         /\ team_data'.players[p].registered_by = team_data.players[p].registered_by
    /\ DOMAIN team_data' = DOMAIN team_data
    /\ \A k \in DOMAIN team_data \ {"players"} : team_data'[k] = team_data[k]

StatsCleared(td, p) ==
    /\ td.players[p].ranked_stats = << >>
    /\ td.players[p].last_updated = << >>

ClearKeepsRegistrations ==
    /\ OnRegistered("clearstats") =>
         LET riot_id == botCall'.riot_id
         IN /\ KeepsRegistrations
            /\ StatsCleared(team_data', riot_id)
            /\ \A p \in Registered(team_data) \ {riot_id} :
                 team_data'.players[p] = team_data.players[p]
            /\ matches' = SelectSeq(matches, LAMBDA m : m.summoner_name # riot_id)
    /\ (botCall'.op = "clearall" /\ botCall'.arg = <<"confirm">> /\ ~NoPlayersKey) =>
         /\ KeepsRegistrations
         /\ \A p \in Registered(team_data) : StatsCleared(team_data', p)
         /\ matches' = << >>

NothingWithoutConfirm ==
    (botCall'.op \in {"clearall", "unregisterall"} /\ botCall'.arg # <<"confirm">>) =>
        /\ UNCHANGED <<team_data, team_file, matches, file>>
        /\ ~NoPlayersKey => botCall'.outcome = "warning"

RegisterStores ==
    botCall'.op = "register" =>
        LET riot_id == botCall'.riot_id
        IN IF riot_id \in Registered(team_data) \/ ~HasTag(riot_id)
             THEN UNCHANGED <<team_data, team_file, matches, file>>
             ELSE /\ riot_id \in Registered(team_data')
                  /\ team_data'.players[riot_id].region = botCall'.arg
                  /\ team_data'.players[riot_id].registered_by = Author
                  /\ team_file' = <<team_data'>>

\* C17: !register of a Riot ID that is already registered or has no '#'
\* changes neither team_data nor the manual match store; any other Riot ID
\* is registered when the command ends, with its region and registrant, and
\* saved to team_data.json, also when the auto-scan failed.
C17_RegisterStores == [][RegisterStores]_vars

SyncImports ==
    (OnRegistered("sync") /\ botCall'.arg.summoner_info) =>
        \A match_id \in Elems(first_ids(botCall'.arg.count)) \cap botCall'.arg.found :
            \E i \in 1..Len(matches') :
                /\ matches'[i].match_id = "SYNC_" \o match_id
                /\ matches'[i].summoner_name = botCall'.riot_id

\* C18: when !sync <riot_id> [count] of a registered player whose summoner
\* was found ends, every one of the last count ranked matches whose details
\* were obtained and in which the player took part is in the manual store
\* as SYNC_<match_id> under that player's Riot ID.
C18_SyncImports == [][SyncImports]_vars

\* the teams and the players a command issued in guild looks up: create_team
\* reads self.team_data.get("teams", {}) and register_player reads
\* self.team_data["players"], whatever ctx.guild is
teams_seen(td, guild) == DOMAIN Get(td, "teams", << >>)
players_seen(td, guild) == DOMAIN Get(td, "players", << >>)

GuildIsolation ==
    botCall'.op \in {"createteam", "register"} =>
        \A g \in Guilds \ {botCall'.guild} :
            /\ teams_seen(team_data', g) = teams_seen(team_data, g)
            /\ players_seen(team_data', g) = players_seen(team_data, g)

\* C19: a !register or !createteam issued in one guild changes neither the
\* players nor the teams that commands issued in another guild look up.
C19_GuildIsolation == [][GuildIsolation]_vars

\* the state is the one right after load_team_data read the file
\* botCall.outcome, and it agrees with what the file held
LoadMigrates ==
    botCall.op = "load" =>
        LET before == botCall.outcome
        IN IF before = << >>
             THEN /\ team_data = [servers |-> << >>]
                  /\ team_file = <<team_data>>
           ELSE IF "players" \in DOMAIN before[1] /\ "servers" \notin DOMAIN before[1]
             THEN /\ DOMAIN team_data = {"servers"}
                  /\ DOMAIN team_data.servers = {"default"}
                  /\ DOMAIN team_data.servers.default = {"players", "teams", "settings"}
                  /\ team_data.servers.default.players = before[1].players
                  /\ team_data.servers.default.teams =
                         IF "teams" \in DOMAIN before[1] THEN before[1].teams ELSE << >>
                  /\ team_data.servers.default.settings =
                         IF "settings" \in DOMAIN before[1] THEN before[1].settings
                                                            ELSE << >>
                  /\ team_file = <<team_data>>
           ELSE /\ team_data = before[1]
                /\ team_file = before

\* loading right after loading
LoadAgain ==
    (botCall.op = "load" /\ botCall'.op = "load") =>
        UNCHANGED <<team_data, team_file>>

\* C20: load_team_data turns a file with top-level players and no servers
\* into {"servers": {"default": {players, teams, settings}}} with the old
\* players, teams and settings and writes it back; a file with servers is
\* loaded unchanged; a missing file gives {"servers": {}} and is created;
\* loading again changes nothing.
C20_LoadMigrates == []LoadMigrates /\ [][LoadAgain]_vars

\* the migrated single-server file, with its players, teams and settings
\* under servers.default, has been loaded again
C20_Witness ==
    /\ botCall.op = "load"
    /\ botCall.outcome = team_file
    /\ "default" \in DOMAIN team_data.servers
    /\ team_data.servers.default.players = FilePlayers
    /\ team_data.servers.default.teams = FileTeams
    /\ team_data.servers.default.settings = [auto_updates |-> TRUE]

\* the matches of ms with an id that old does not hold
NewMatches(old, ms) == {ms[i] : i \in {j \in 1..Len(ms) : ~HasId(old, ms[j].match_id)}}

CustomByQueue ==
    botCall'.op \in {"synccustom", "register"} =>
        \A m \in NewMatches(matches, matches') :
            "queue_type" \in DOMAIN m =>
                \E match_id \in DOMAIN Games :
                    /\ m.match_id = "CUSTOM_" \o match_id \o "_" \o m.summoner_name
                    /\ \/ Games[match_id].queueId = 0 /\ m.queue_type = "custom"
                       \/ /\ Games[match_id].queueId \in 2000..2020
                          /\ m.queue_type = "tournament"

-----------------------------------------------------------------------------
(* ChampionAnalyzer.get_top_champions.                                      *)

MaxTop == 3
MaxLimit == 4

TopNames == {"Ahri", "Zed", "Lux"}
TopGames == {1, 2}
\* champion_stats.values() in the order of the dict: one ChampionStats per
\* name; the fields besides champion_name and games_played are not read
TopValues ==
    {l \in UNION {[1..n -> [champion_name : TopNames, games_played : TopGames]] :
                     n \in 0..MaxTop} :
        \A i, j \in 1..Len(l) : i # j => l[i].champion_name # l[j].champion_name}
\* limit: the GUI passes 10, the default is 5; both exceed the champions here
Limits == 0..MaxLimit

\* xs[:limit]
slice_to(xs, limit) ==
    LET n == IF limit >= 0 THEN limit ELSE Len(xs) + limit
    IN SubSeq(xs, 1, IF n > Len(xs) THEN Len(xs) ELSE IF n < 0 THEN 0 ELSE n)

\* the first limit values sorted, instead of the sorted values cut
get_top_champions_cut_first(values, limit) ==
    sort_by_games(slice_to(values, limit))

get_top_champions(values, limit) ==
    slice_to(sort_by_games(values), limit)

TopIdle ==
    /\ top_values = << >>
    /\ top_limit = 0
    /\ top_champions = << >>

TopInit ==
    /\ top_values \in TopValues
    /\ top_limit \in Limits
    /\ top_champions = << >>

\* a call; << >> is "not called yet", <<l>> the returned list l
GetTopChampions ==
    /\ top_champions = << >>
    /\ top_champions' = <<get_top_champions(top_values, top_limit)>>
    /\ UNCHANGED <<top_values, top_limit>>
    /\ UNCHANGED notTop

TopNext == GetTopChampions

\* C22: get_top_champions returns min(limit, number of champions) of the
\* given entries, in non-increasing order of games_played, and no champion
\* left out has more games than a returned one.
C22_TopChampions ==
    top_champions # << >> =>
        LET out == top_champions[1]
            n == Len(top_values)
            given == {top_values[i] : i \in 1..n}
            returned == {out[i] : i \in 1..Len(out)}
        IN /\ Len(out) = IF top_limit < n THEN top_limit ELSE n
           /\ returned \subseteq given
           /\ Cardinality(returned) = Len(out)
           /\ \A i \in 1..(Len(out) - 1) : out[i].games_played >= out[i + 1].games_played
           /\ \A c \in given \ returned : \A r \in returned :
                  c.games_played <= r.games_played

\* a call with more champions than limit, where a later champion of the
\* dict has more games than an earlier one
C22_Witness ==
    /\ top_champions # << >>
    /\ 0 < top_limit
    /\ top_limit < Len(top_values)
    /\ top_values[1].games_played < top_values[Len(top_values)].games_played

-----------------------------------------------------------------------------
(* AccountGUI and ScoutleGUI: the analysis threads the buttons start and    *)
(* the attributes these threads write. The Tk main loop runs the clicks and *)
(* the callbacks handed to root.after; every thread step below is taken by  *)
(* a daemon thread, at whatever moment the interpreter switches to it.      *)

\* the analysis threads alive at once
MaxThreads == 2
\* the callbacks waiting in the Tk event queue
MaxAfter == 1

\* the summoner name entry, stripped
SummonerNames == {"", "Faker"}
\* the Riot ID entry, stripped
RiotIds == {"", "Faker", "Faker#KR1"}
\* '#' in riot_id
HasHash(riot_id) == riot_id = "Faker#KR1"
\* the API key entry, stripped
GuiApiKeys == {"", "RGAPI-1"}

\* _analyze_player_thread asks for the account, the summoner, the ranked
\* statistics, the match history and each match, every time through
\* make_request; the model follows the first request, the account lookup.
\* cache_key = f"{url}_{params}"
cache_key(riot_id) == "by-riot-id/" \o riot_id

\* a PlayerAccount, by its summoner name and by who made it
PlayerAccount(summoner_name, source) ==
    [summoner_name |-> summoner_name, source |-> source]
\* _create_mock_account_data
create_mock_account_data(summoner_name) == PlayerAccount(summoner_name, "mock")

\* a started thread: its target, its argument, where it stands, and whether
\* the client its pending request was made on has been replaced since
Thread(target, name, pc, replaced) ==
    [target |-> target, name |-> name, pc |-> pc, replaced |-> replaced]

\* threading.Thread(target=..., args=...).start()
start_thread(target, name) ==
    /\ Len(threads) < MaxThreads
    /\ threads' = Append(threads, Thread(target, name, "start", FALSE))

\* the attribute an analysis thread writes
SharedState(t) ==
    IF t.target = "_analyze_player_thread"
      THEN "api_client.cache"
      ELSE "current_account_data"

GuiIdle ==
    /\ threads = << >>
    /\ current_account_data = << >>
    /\ use_mock_data = FALSE
    /\ api_client = << >>
    /\ after = 0

\* AccountGUI() and ScoutleGUI()
GuiInit ==
    /\ threads = << >>
    /\ current_account_data = << >>
    /\ use_mock_data = TRUE
    /\ api_client = << >>
    /\ after = 0

\* the "Use Mock Data" checkbox
toggle_mock_data ==
    /\ use_mock_data' = ~use_mock_data
    /\ UNCHANGED <<threads, current_account_data, api_client, after>>
    /\ UNCHANGED notGui

\* AccountGUI.analyze_account and AccountGUI.analyze_account_hybrid, which
\* differ in the target of the thread
analyze_account(target, summoner_name) ==
    /\ IF summoner_name = ""
         THEN threads' = threads
         ELSE start_thread(target, summoner_name)
    /\ UNCHANGED <<current_account_data, use_mock_data, api_client, after>>
    /\ UNCHANGED notGui

\* ScoutleGUI.validate_api_key: a new RiotAPIClient, its cache empty. A
\* request that is under way goes on in the client it was made on.
validate_api_key(api_key) ==
    /\ IF api_key = ""
         THEN UNCHANGED <<api_client, threads>>
         ELSE /\ api_client' = <<{}>>
              /\ threads' = [i \in 1..Len(threads) |->
                                IF threads[i].pc = "requesting"
                                  THEN [threads[i] EXCEPT !.replaced = TRUE]
                                  ELSE threads[i]]
    /\ UNCHANGED <<current_account_data, use_mock_data, after>>
    /\ UNCHANGED notGui

\* ScoutleGUI.analyze_player
analyze_player(riot_id) ==
    /\ IF api_client = << >> \/ riot_id = "" \/ ~HasHash(riot_id)
         THEN threads' = threads
         ELSE start_thread("_analyze_player_thread", riot_id)
    /\ UNCHANGED <<current_account_data, use_mock_data, api_client, after>>
    /\ UNCHANGED notGui

\* thread i moves to pc
Goes(i, pc) == threads' = [threads EXCEPT ![i].pc = pc]

\* _analyze_account_thread and _analyze_account_hybrid_thread, one step:
\* the clearing is handed to the main loop; then the mock account is stored,
\* or the scraper is called and the account it returns, if any, is stored
analyze_account_thread(i, scraped) ==
    LET t == threads[i]
    IN /\ t.target # "_analyze_player_thread"
       /\ \/ /\ t.pc = "start"
             /\ after < MaxAfter
             /\ after' = after + 1
             /\ Goes(i, "cleared")
             /\ UNCHANGED current_account_data
          \/ /\ t.pc = "cleared"
             /\ IF use_mock_data
                  THEN /\ current_account_data' =
                            <<create_mock_account_data(t.name)>>
                       /\ Goes(i, "wrote")
                  ELSE /\ Goes(i, "scraping")
                       /\ UNCHANGED current_account_data
             /\ UNCHANGED after
          \/ /\ t.pc = "scraping"
             /\ IF scraped
                  THEN /\ current_account_data' =
                            <<PlayerAccount(t.name, t.target)>>
                       /\ Goes(i, "wrote")
                  ELSE /\ Goes(i, "failed")
                       /\ UNCHANGED current_account_data
             /\ UNCHANGED after
       /\ UNCHANGED <<use_mock_data, api_client>>
       /\ UNCHANGED notGui

\* _analyze_player_thread, one step: RiotAPIClient.make_request looks the key
\* up in the cache of the client; without a fresh entry it asks the API and
\* stores the answer in the cache of the client it was called on. Without
\* an answer the thread gives up.
analyze_player_thread(i, fresh, answered) ==
    LET t == threads[i]
        key == cache_key(t.name)
    IN /\ t.target = "_analyze_player_thread"
       /\ \/ /\ t.pc = "start"
             /\ IF key \in api_client[1] /\ fresh
                  THEN Goes(i, "read")
                  ELSE Goes(i, "requesting")
             /\ UNCHANGED api_client
          \/ /\ t.pc = "requesting"
             /\ IF answered
                  THEN /\ Goes(i, "wrote")
                       /\ api_client' = IF t.replaced
                                          THEN api_client
                                          ELSE <<api_client[1] \cup {key}>>
                  ELSE /\ Goes(i, "failed")
                       /\ UNCHANGED api_client
       /\ UNCHANGED <<current_account_data, use_mock_data, after>>
       /\ UNCHANGED notGui

\* the thread function returns
thread_ends(i) ==
    /\ threads[i].pc \in {"wrote", "read", "failed"}
    /\ threads' = SubSeq(threads, 1, i - 1) \o SubSeq(threads, i + 1, Len(threads))
    /\ UNCHANGED <<current_account_data, use_mock_data, api_client, after>>
    /\ UNCHANGED notGui

\* AccountGUI.clear_results, run by the main loop for root.after(0, ...)
clear_results ==
    /\ after > 0
    /\ after' = after - 1
    /\ current_account_data' = << >>
    /\ UNCHANGED <<threads, use_mock_data, api_client>>
    /\ UNCHANGED notGui

GuiNext ==
    \/ toggle_mock_data
    \/ \E target \in {"_analyze_account_thread", "_analyze_account_hybrid_thread"},
          n \in SummonerNames : analyze_account(target, n)
    \/ \E k \in GuiApiKeys : validate_api_key(k)
    \/ \E r \in RiotIds : analyze_player(r)
    \/ \E i \in 1..Len(threads), scraped \in BOOLEAN :
          analyze_account_thread(i, scraped)
    \/ \E i \in 1..Len(threads), fresh \in BOOLEAN, answered \in BOOLEAN :
          analyze_player_thread(i, fresh, answered)
    \/ \E i \in 1..Len(threads) : thread_ends(i)
    \/ clear_results

\* a thread that has not yet reached the end of its work
Running(t) == t.pc \in {"start", "cleared", "scraping", "requesting"}

\* this step is thread i storing into the attribute it shares
Writes(i) ==
    /\ Len(threads') = Len(threads)
    /\ threads[i].pc # "wrote"
    /\ threads'[i].pc = "wrote"
    /\ ~threads[i].replaced

\* no other thread that writes the same attribute is under way
WritesAlone(i) ==
    \A j \in 1..Len(threads) \ {i} :
        ~(Running(threads[j]) /\ SharedState(threads[j]) = SharedState(threads[i]))

OneWriterAtATime == \A i \in 1..Len(threads) : Writes(i) => WritesAlone(i)

\* C23: whatever the user clicks, an analysis thread stores into
\* current_account_data, or into the cache of the RiotAPIClient, only while no
\* other analysis thread that writes the same attribute is still running.
C23_OneWriterAtATime == [][OneWriterAtATime]_vars

----------------------------------------------------------------------------
(* The specifications, one for each component.                             *)

OthersIdle(component) ==
    /\ component # "store" => StoreIdle
    /\ component # "kda" => KdaIdle
    /\ component # "trend" => TrendIdle
    /\ component # "analyzer" => AnalyzerIdle
    /\ component # "client" => ClientIdle
    /\ component # "hybrid" => HybridIdle
    /\ component # "scraper" => ScraperIdle
    /\ component # "tournament" => TournamentIdle
    /\ component # "bot" => BotIdle
    /\ component # "top" => TopIdle
    /\ component # "gui" => GuiIdle

\* the manual match store
Init == StoreInit /\ OthersIdle("store")
Spec == Init /\ [][StoreNext]_vars

\* the manual match store with matches of several players and champions
SpecStats == Init /\ [][StatsNext]_vars

\* the KDA computations
InitKda == KdaInit /\ OthersIdle("kda")
SpecKda == InitKda /\ [][KdaNext]_vars

\* _calculate_performance_trend
InitTrend == TrendInit /\ OthersIdle("trend")
SpecTrend == InitTrend /\ [][TrendNext]_vars

\* analyze_matches
InitAnalyzer == AnalyzerInit /\ OthersIdle("analyzer")
SpecAnalyzer == InitAnalyzer /\ [][AnalyzerNext]_vars

\* the Riot API client
InitClient == ClientInit /\ OthersIdle("client")
SpecClient == InitClient /\ [][ClientNext]_vars

\* _combine_data_sources
InitHybrid == HybridInit /\ OthersIdle("hybrid")
SpecHybrid == InitHybrid /\ [][HybridNext]_vars

\* HybridScraper.scrape_player_account
InitScraper == ScraperInit /\ OthersIdle("scraper")
SpecScraper == InitScraper /\ [][ScraperNext]_vars

\* TournamentScraper.scrape_tournament_games
InitTournament == TournamentInit /\ OthersIdle("tournament")
SpecTournament == InitTournament /\ [][TournamentNext]_vars

\* ScoutLEBot
InitBot == BotInit /\ OthersIdle("bot")
SpecBot == InitBot /\ [][BotNext]_vars

\* ScoutLEBot: registering, importing, creating teams
SpecRegister == InitBot /\ [][RegisterNext]_vars

\* ScoutLEBot: scanning for custom and tournament games
SpecCustom == InitBot /\ [][CustomNext]_vars

\* ChampionAnalyzer.get_top_champions
InitTop == TopInit /\ OthersIdle("top")
SpecTop == InitTop /\ [][TopNext]_vars

\* AccountGUI and ScoutleGUI
InitGui == GuiInit /\ OthersIdle("gui")
SpecGui == InitGui /\ [][GuiNext]_vars

====
